---------------------------- MODULE Spec2Model ----------------------------
(***************************************************************************)
(* Reconciliation & classification engine of agente-financeiro.           *)
(*                                                                         *)
(* Strings are sequences of characters; a character is a one-letter TLA+  *)
(* string, and a character outside ASCII is written by its entity name    *)
(* ("ordm" is the ordinal sign, "aacute" a-acute, "ccedil" c-cedilla ...). *)
(* An absent value (null / undefined / 0, all falsy in the source) of a   *)
(* numeric field is 0.                                                     *)
(***************************************************************************)
EXTENDS Integers, Sequences, FiniteSets, TLC

VARIABLES
  groupsCache,    \* feegow.js: let groupsCache = null
  groupMapping,   \* excel.js: let groupMapping = null
  loadedFrom,     \* history: the answer the group mapping was built from
  lastCall,       \* history: the latest classifyProcedure call and its result
  memoCall,       \* history: some earlier classifyProcedure call and its result
  otherBetween,   \* history: another call or a load came after memoCall
  splitName,      \* the NomeProcedimento field handed to the split
  splitPieces,    \* the value of the split call on it
  splitTokens,    \* the reportNames computed from it
  splitDone,      \* whether the split has run
  pc,                    \* where the driver of the batches is
  batch,                 \* history: the number of batches started
  startDate,             \* fetchDetailedTransactions: startDate
  endDate,               \* fetchDetailedTransactions: endDate
  transactions,          \* fetchDetailedTransactions: const transactions
  loopIndex,             \* fetchDetailedTransactions: the calls its loop has made (i)
  enrichedTransactions,  \* fetchDetailedTransactions: const enrichedTransactions
  tasks,                 \* the calls of enrichTransactionWithItems not yet returned
  usedProposalIds,       \* feegow.js: const usedProposalIds = new Set()
  consumedBefore,        \* history: the proposal ids used by earlier batches
  proposalsCache,        \* feegow.js: const proposalsCache = new Map()
  proceduresCache,       \* feegow.js: const proceduresCache = new Map()
  appointmentsCache,     \* feegow.js: const appointmentsCache = new Map()
  storedIn,              \* history: the batch in which each cache entry was stored
  groupedTransactions,   \* updateSpreadsheetCustom: const groupedTransactions
  cursor,                \* the group and item buildRow is at, the attempt of the search
  row,                   \* buildRow: procedureValues, discountTotal, classificationDetails
  insertedRows,          \* updateSpreadsheetCustom: const insertedRows
  answers,               \* history: what the calls of the batch's enrichments were answered
  matching,              \* one call of findMatchingProposal: arguments, answer, result
  faults,                \* the statuses the failed requests of this run carry
  paymentMov,            \* buildRow: the transaction whose payment is booked
  paymentValues,         \* buildRow: const paymentValues
  colunaPagamento        \* buildPatientEntry: colunaPagamento of the transaction

classifyVars ==
  <<groupsCache, groupMapping, loadedFrom, lastCall, memoCall, otherBetween>>
splitVars == <<splitName, splitPieces, splitTokens, splitDone>>
batchVars ==
  <<pc, batch, startDate, endDate, transactions, loopIndex, enrichedTransactions,
    tasks, usedProposalIds, consumedBefore, proposalsCache, proceduresCache,
    appointmentsCache, storedIn, groupedTransactions, cursor, row, insertedRows,
    answers>>
matchVars == <<matching>>
envVars == <<faults>>
payVars == <<paymentMov, paymentValues, colunaPagamento>>

-----------------------------------------------------------------------------
(* Characters *)

UpperChars ==
  <<"A", "B", "C", "D", "E", "F", "G", "H", "I", "J", "K", "L", "M", "N",
    "O", "P", "Q", "R", "S", "T", "U", "V", "W", "X", "Y", "Z",
    "Aacute", "Atilde", "Ccedil", "Uacute">>

LowerChars ==
  <<"a", "b", "c", "d", "e", "f", "g", "h", "i", "j", "k", "l", "m", "n",
    "o", "p", "q", "r", "s", "t", "u", "v", "w", "x", "y", "z",
    "aacute", "atilde", "ccedil", "uacute">>

Range(s) == {s[i] : i \in DOMAIN s}

\* the lowercase form of each uppercase character
LowerMap ==
  [c \in Range(UpperChars) |->
     LowerChars[CHOOSE i \in DOMAIN UpperChars : UpperChars[i] = c]]

\* String.prototype.toLowerCase, character by character
LowerOf(c) == IF c \in DOMAIN LowerMap THEN LowerMap[c] ELSE c

toLowerCase(s) == [i \in 1..Len(s) |-> LowerOf(s[i])]

\* String.prototype.includes: p occurs in s as a contiguous substring
includes(s, p) ==
  \E i \in 0..(Len(s) - Len(p)) : SubSeq(s, i + 1, i + Len(p)) = p

\* the class [A-Za-zÀ-ú] of the split expression
RegexLetters == Range(UpperChars) \cup Range(LowerChars)

IsRegexLetter(c) == c \in RegexLetters

\* the class \d
IsDigit(c) == c \in {"0", "1", "2", "3", "4", "5", "6", "7", "8", "9"}

\* the class \s
IsSpace(c) == c = " "

-----------------------------------------------------------------------------
(* excel.js: COLUMNS, PROCEDURE_MAPPING, classifyProcedure *)

NULL == "null"

COLUMNS ==
  [DATA |-> "A", NOME |-> "B", VENDA |-> "C", AVALIACAO |-> "D",
   TRATAMENTO |-> "E", DESCONTO |-> "F", DR_RIGATTI |-> "G", IMPLANTE |-> "H",
   SORO_DR |-> "I", TIRZEPATIDA |-> "J", APLICACOES |-> "K", ONLINE |-> "L",
   COMISSAO |-> "M", NUTRIS |-> "N", EXTRA |-> "O", ESTORNO_PROC |-> "P",
   DINHEIRO |-> "Q", SICOOB |-> "R", SAFRA |-> "S", PIX_SAFRA |-> "T",
   INFINITE |-> "U", PIX |-> "V", CHEQUE |-> "W", BOLETO |-> "X",
   OBSERVACAO |-> "AG", JUROS_CARTAO |-> "Z", TX_SICOOB |-> "AA",
   TX_INFINITE |-> "AB", TX_SAFRA |-> "AC", ESTORNO |-> "AD",
   NP_ABERTA |-> "AE", BOLETO_2 |-> "AF"]

\* Object.entries(PROCEDURE_MAPPING): the entries in insertion order
PROCEDURE_MAPPING ==
  << [pattern |-> <<"n", "u", "t", "r", "i", "c", "i", "o", "n", "a", "l">>, column |-> COLUMNS.NUTRIS],
     [pattern |-> <<"a", "v", "a", "l", "i", "a">>, column |-> COLUMNS.AVALIACAO],
     [pattern |-> <<"r", "i", "g", "a", "t", "t", "i">>, column |-> COLUMNS.DR_RIGATTI],
     [pattern |-> <<"r", "e", "c", "o", "m", "p", "r", "a">>, column |-> COLUMNS.DR_RIGATTI],
     [pattern |-> <<"p", "r", "o", "t", "o", "c", "o", "l", "o">>, column |-> COLUMNS.DR_RIGATTI],
     [pattern |-> <<"o", "n", "l", "i", "n", "e">>, column |-> COLUMNS.ONLINE],
     [pattern |-> <<"c", "o", "n", "s", "u", "l", "t", "a">>, column |-> COLUMNS.AVALIACAO],
     [pattern |-> <<"v", "i", "c", "t", "o", "r">>, column |-> COLUMNS.EXTRA],
     [pattern |-> <<"i", "m", "p", "l", "a", "n", "t", "e">>, column |-> COLUMNS.IMPLANTE],
     [pattern |-> <<"s", "o", "r", "o">>, column |-> COLUMNS.SORO_DR],
     [pattern |-> <<"s", "o", "r", "o", "t", "e", "r", "a", "p", "i", "a">>, column |-> COLUMNS.SORO_DR],
     [pattern |-> <<"n", "o", "r", "i", "p", "u", "r", "u", "m">>, column |-> COLUMNS.SORO_DR],
     [pattern |-> <<"t", "i", "r", "z", "e", "p", "a", "t", "i", "d", "a">>, column |-> COLUMNS.TIRZEPATIDA],
     [pattern |-> <<"i", "n", "j", "e", "t", "aacute", "v", "e", "l">>, column |-> COLUMNS.APLICACOES],
     [pattern |-> <<"i", "n", "j", "e", "t", "a", "v", "e", "l">>, column |-> COLUMNS.APLICACOES],
     [pattern |-> <<"c", "i", "p", "i", "o", "n", "a", "t", "o">>, column |-> COLUMNS.APLICACOES],
     [pattern |-> <<"t", "e", "s", "t", "o", "s", "t", "e", "r", "o", "n", "a">>, column |-> COLUMNS.APLICACOES],
     [pattern |-> <<"b", "l", "e", "n", "d">>, column |-> COLUMNS.APLICACOES],
     [pattern |-> <<"g", "h", " ">>, column |-> COLUMNS.APLICACOES],
     [pattern |-> <<"g", "e", "n", "o", "t", "r", "o", "p", "i", "n">>, column |-> COLUMNS.APLICACOES],
     [pattern |-> <<"o", "m", "n", "i", "t", "r", "o", "p", "e">>, column |-> COLUMNS.APLICACOES],
     [pattern |-> <<"n", "u", "t", "r", "i">>, column |-> COLUMNS.NUTRIS],
     [pattern |-> <<"t", "r", "a", "t", "a", "m", "e", "n", "t", "o", " ", "p", "r", "o", "p", "o", "s", "t", "o">>, column |-> COLUMNS.DR_RIGATTI],
     [pattern |-> <<"j", "u", "r", "o", "s">>, column |-> COLUMNS.JUROS_CARTAO],
     [pattern |-> <<"e", "s", "t", "o", "r", "n", "o">>, column |-> COLUMNS.ESTORNO_PROC] >>

\* COLUMNS[columnById] || columnById
ColumnOf(columnById) ==
  IF columnById \in DOMAIN COLUMNS THEN COLUMNS[columnById] ELSE columnById

\* the mutant of ScanPatterns: the last matching entry wins, not the first
RECURSIVE ScanPatterns_LastWins(_, _)
ScanPatterns_LastWins(normalizedName, k) ==
  IF k > Len(PROCEDURE_MAPPING)
    THEN [column |-> COLUMNS.EXTRA, classificadoPor |-> "fallback"]
    ELSE LET rest == ScanPatterns_LastWins(normalizedName, k + 1)
         IN IF rest.classificadoPor = "nome"
              THEN rest
              ELSE IF includes(normalizedName, toLowerCase(PROCEDURE_MAPPING[k].pattern))
                     THEN [column |-> PROCEDURE_MAPPING[k].column,
                           classificadoPor |-> "nome"]
                     ELSE rest

\* the for-loop of classifyProcedure over the entries, from entry k on
RECURSIVE ScanPatterns(_, _)
ScanPatterns(normalizedName, k) ==
  IF k > Len(PROCEDURE_MAPPING)
    THEN [column |-> COLUMNS.EXTRA, classificadoPor |-> "fallback"]
    ELSE IF includes(normalizedName, toLowerCase(PROCEDURE_MAPPING[k].pattern))
      THEN [column |-> PROCEDURE_MAPPING[k].column, classificadoPor |-> "nome"]
      ELSE ScanPatterns(normalizedName, k + 1)

\* the mutant of classifyProcedure: the name patterns are tried before the id
classifyProcedure_NameFirst(procedureName, procedureId) ==
  LET byName == ScanPatterns(toLowerCase(procedureName), 1)
  IN IF byName.classificadoPor = "nome"
       THEN byName
       ELSE IF procedureId # 0 /\ groupMapping.set
                 /\ procedureId \in DOMAIN groupMapping.map
              THEN [column |-> ColumnOf(groupMapping.map[procedureId]),
                    classificadoPor |-> "id"]
              ELSE byName

classifyProcedure(procedureName, procedureId) ==
  IF procedureId # 0 /\ groupMapping.set
       /\ procedureId \in DOMAIN groupMapping.map
    THEN [column |-> ColumnOf(groupMapping.map[procedureId]),
          classificadoPor |-> "id"]
    ELSE ScanPatterns(toLowerCase(procedureName), 1)

-----------------------------------------------------------------------------
(* feegow.js: fetchGroupMapping *)

GROUP_TO_COLUMN ==
  (1 :> "IMPLANTE") @@ (2 :> "APLICACOES") @@ (4 :> "SORO_DR") @@ (5 :> "EXTRA")

OVERRIDES ==
  (58 :> "TIRZEPATIDA") @@ (144 :> "TIRZEPATIDA") @@ (16 :> "AVALIACAO")
  @@ (17 :> "ONLINE") @@ (18 :> "NUTRIS") @@ (19 :> "ONLINE") @@ (20 :> NULL)
  @@ (22 :> "NUTRIS") @@ (23 :> "AVALIACAO") @@ (24 :> "NUTRIS")
  @@ (104 :> "DR_RIGATTI") @@ (105 :> "DR_RIGATTI") @@ (106 :> "DR_RIGATTI")
  @@ (107 :> "DR_RIGATTI") @@ (108 :> "DR_RIGATTI") @@ (109 :> "NUTRIS")
  @@ (110 :> "NUTRIS") @@ (111 :> "NUTRIS") @@ (112 :> "NUTRIS")
  @@ (137 :> "ONLINE")

\* GROUP_TO_COLUMN[group.id] || null
GroupColumn(groupId) ==
  IF groupId \in DOMAIN GROUP_TO_COLUMN THEN GROUP_TO_COLUMN[groupId] ELSE NULL

\* mapping.set(key, column) on a Map held as a function
MapSet(mapping, key, column) ==
  [k \in DOMAIN mapping \cup {key} |-> IF k = key THEN column ELSE mapping[k]]

\* the body of the inner loop of fetchGroupMapping, for one procedure of a group
MapProcedure(mapping, groupColumn, procId) ==
  IF procId \in DOMAIN OVERRIDES
    THEN IF OVERRIDES[procId] # NULL
           THEN MapSet(mapping, procId, OVERRIDES[procId])
           ELSE mapping
    ELSE IF groupColumn # NULL
           THEN MapSet(mapping, procId, groupColumn)
           ELSE mapping

\* for (const proc of group.procedimentos), from procedure k on
RECURSIVE MapGroup(_, _, _, _)
MapGroup(mapping, groupColumn, procedimentos, k) ==
  IF k > Len(procedimentos)
    THEN mapping
    ELSE MapGroup(MapProcedure(mapping, groupColumn, procedimentos[k]),
                  groupColumn, procedimentos, k + 1)

\* for (const group of groups), from group g on
RECURSIVE MapGroups(_, _, _)
MapGroups(mapping, groups, g) ==
  IF g > Len(groups)
    THEN mapping
    ELSE MapGroups(MapGroup(mapping, GroupColumn(groups[g].id),
                            groups[g].procedimentos, 1),
                   groups, g + 1)

\* new Map()
EmptyMap == << >>

\* the mapping fetchGroupMapping builds from the answer of /api/procedures/groups
BuildMapping(response) ==
  IF response.ok THEN MapGroups(EmptyMap, response.groups, 1) ELSE EmptyMap

\* the answers of GET /api/procedures/groups the model draws from
GroupListings ==
  { << [id |-> 1, procedimentos |-> <<1>>],
       [id |-> 2, procedimentos |-> <<58, 30>>],
       [id |-> 3, procedimentos |-> <<16, 20, 21>>],
       [id |-> 4, procedimentos |-> <<40>>],
       [id |-> 9, procedimentos |-> <<90>>] >>,
    << [id |-> 3, procedimentos |-> <<20, 104>>] >>,
    << [id |-> 2, procedimentos |-> <<20>>],
       [id |-> 1, procedimentos |-> <<58>>] >>,
    << >> }

GroupResponses ==
  {[ok |-> TRUE, groups |-> l] : l \in GroupListings}
    \cup {[ok |-> FALSE, groups |-> << >>]}

NoResponse == [ok |-> FALSE, groups |-> << >>]

\* the procedure ids a listing names
ListedIds(groups) ==
  UNION {Range(groups[g].procedimentos) : g \in DOMAIN groups}

NoMap == [set |-> FALSE, map |-> EmptyMap]

\* the mutant of fetchGroupMapping: no memoization, every call asks the upstream
fetchGroupMapping_NoCache(response) ==
  /\ groupsCache' = [set |-> TRUE, map |-> BuildMapping(response)]
  /\ loadedFrom' = response

\* the mutant of fetchGroupMapping: an empty map is loaded again
fetchGroupMapping_RetryEmpty(response) ==
  IF groupsCache.set /\ groupsCache.map # EmptyMap
    THEN UNCHANGED <<groupsCache, loadedFrom>>
    ELSE /\ groupsCache' = [set |-> TRUE, map |-> BuildMapping(response)]
         /\ loadedFrom' = response

\* fetchGroupMapping, the upstream answering `response` when it is asked
fetchGroupMapping(response) ==
  IF groupsCache.set
    THEN UNCHANGED <<groupsCache, loadedFrom>>
    ELSE /\ groupsCache' = [set |-> TRUE, map |-> BuildMapping(response)]
         /\ loadedFrom' = response

-----------------------------------------------------------------------------
(* The classification process: loads of the mapping and classifications *)

\* the procedure names the classifier is called with
ClassifyNames ==
  { << >>,
    <<"C", "o", "n", "s", "u", "l", "t", "a", " ", "N", "u", "t", "r", "i", "c", "i", "o", "n", "a", "l">>,
    <<"C", "O", "N", "S", "U", "L", "T", "A", " ", "O", "N", "L", "I", "N", "E">>,
    <<"A", "v", "a", "l", "i", "a", "ccedil", "atilde", "o", " ", "I", "n", "i", "c", "i", "a", "l">>,
    <<"S", "o", "r", "o", "t", "e", "r", "a", "p", "i", "a">>,
    <<"N", "u", "t", "r", "i">>,
    <<"C", "o", "n", "s", "u", "l", "t", "a", " ", "R", "e", "c", "o", "m", "p", "r", "a">>,
    <<"C", "o", "n", "v", "e", "r", "s", "a", "/", "D", "uacute", "v", "i", "d", "a", "s">>,
    <<"T", "i", "r", "z", "e", "p", "a", "t", "i", "d", "a", " ", "4", "0", "M", "g", "/", "1", ",", "6", "M", "l">>,
    <<"I", "m", "p", "l", "a", "n", "t", "e", ",", "S", "o", "r", "o", "t", "e", "r", "a", "p", "i", "a">>,
    <<"G", "H">>,
    <<"G", "H", " ", "4", "u", "i">>,
    <<"I", "n", "j", "e", "t", "aacute", "v", "e", "l", " ", "B", "l", "e", "n", "d">> }

\* the procedure ids the classifier is called with (0: no id)
ClassifyIds == {0, 20, 58, 21, 104}

NoCall ==
  [made |-> FALSE, name |-> << >>, id |-> 0, mapSet |-> FALSE,
   result |-> [column |-> NULL, classificadoPor |-> "none"]]

ClassifyInit ==
  /\ groupsCache = NoMap
  /\ groupMapping = NoMap
  /\ loadedFrom = NoResponse
  /\ lastCall = NoCall
  /\ memoCall = NoCall
  /\ otherBetween = FALSE

\* excel.js: groupMapping = await fetchGroupMapping()
LoadGroupMapping ==
  \E response \in GroupResponses :
    /\ fetchGroupMapping(response)
    /\ groupMapping' = groupsCache'
    /\ otherBetween' = memoCall.made
    /\ UNCHANGED <<lastCall, memoCall>>
    /\ UNCHANGED <<splitVars, batchVars, matchVars, envVars, payVars>>

\* a call classifyProcedure(procedureName, procedureId), its arguments drawn
\* from the given sets
ClassifyFrom(names, ids) ==
  \E procedureName \in names, procedureId \in ids :
    /\ lastCall' = [made |-> TRUE, name |-> procedureName, id |-> procedureId,
                    mapSet |-> groupMapping.set,
                    result |-> classifyProcedure(procedureName, procedureId)]
    /\ otherBetween' =
         (otherBetween \/ (memoCall.made
                            /\ <<procedureName, procedureId>>
                                 # <<memoCall.name, memoCall.id>>))
    /\ UNCHANGED <<groupsCache, groupMapping, loadedFrom, memoCall>>
    /\ UNCHANGED <<splitVars, batchVars, matchVars, envVars, payVars>>

Classify == ClassifyFrom(ClassifyNames, ClassifyIds)

\* the arguments of the calls that are compared with an earlier call
RepeatNames ==
  { <<"C", "o", "n", "s", "u", "l", "t", "a", " ", "N", "u", "t", "r", "i", "c", "i", "o", "n", "a", "l">>,
    <<"S", "o", "r", "o", "t", "e", "r", "a", "p", "i", "a">>,
    <<"C", "o", "n", "v", "e", "r", "s", "a", "/", "D", "uacute", "v", "i", "d", "a", "s">> }

RepeatIds == {0, 20, 58}

ClassifyAgain == ClassifyFrom(RepeatNames, RepeatIds)

\* history only: keep the latest call to compare later calls with
Remember ==
  /\ lastCall.made
  /\ memoCall' = lastCall
  /\ otherBetween' = FALSE
  /\ UNCHANGED <<groupsCache, groupMapping, loadedFrom, lastCall>>
  /\ UNCHANGED <<splitVars, batchVars, matchVars, envVars, payVars>>

-----------------------------------------------------------------------------
(* feegow.js: the split of the NomeProcedimento field *)
(*   .split(/,(?=\s*[A-Za-zÀ-ú])|,(?=\s*\d+º)/).map(n => n.trim()).filter(n => n) *)

\* \s* from position i: the first position that holds no white space
RECURSIVE SkipSpaces(_, _)
SkipSpaces(s, i) ==
  IF i <= Len(s) /\ IsSpace(s[i]) THEN SkipSpaces(s, i + 1) ELSE i

\* \d* from position i: the first position that holds no digit
RECURSIVE SkipDigits(_, _)
SkipDigits(s, i) ==
  IF i <= Len(s) /\ IsDigit(s[i]) THEN SkipDigits(s, i + 1) ELSE i

\* (?=\s*[A-Za-zÀ-ú]) after the comma at p
LookaheadLetter(s, p) ==
  LET j == SkipSpaces(s, p + 1)
  IN j <= Len(s) /\ IsRegexLetter(s[j])

\* (?=\s*\d+º) after the comma at p
LookaheadOrdinal(s, p) ==
  LET j == SkipSpaces(s, p + 1)
      k == SkipDigits(s, j)
  IN k > j /\ k <= Len(s) /\ s[k] = "ordm"

\* the mutant of IsSplitComma: split(','), every comma separates
IsSplitComma_EveryComma(s, p) == s[p] = ","

\* the split expression matches at position p
IsSplitComma(s, p) ==
  s[p] = "," /\ (LookaheadLetter(s, p) \/ LookaheadOrdinal(s, p))

\* String.prototype.split: the pieces of s from position `from`, the scan at p
RECURSIVE SplitPieces(_, _, _)
SplitPieces(s, from, p) ==
  IF p > Len(s)
    THEN <<SubSeq(s, from, Len(s))>>
    ELSE IF IsSplitComma(s, p)
      THEN <<SubSeq(s, from, p - 1)>> \o SplitPieces(s, p + 1, p + 1)
      ELSE SplitPieces(s, from, p + 1)

RECURSIVE TrimStart(_)
TrimStart(s) ==
  IF Len(s) > 0 /\ IsSpace(s[1]) THEN TrimStart(Tail(s)) ELSE s

RECURSIVE TrimEnd(_)
TrimEnd(s) ==
  IF Len(s) > 0 /\ IsSpace(s[Len(s)])
    THEN TrimEnd(SubSeq(s, 1, Len(s) - 1))
    ELSE s

\* String.prototype.trim
trim(s) == TrimEnd(TrimStart(s))

NonEmpty(s) == Len(s) > 0

\* the value of the split call, before .map and .filter
splitPiecesOf(NomeProcedimento) ==
  IF Len(NomeProcedimento) = 0 THEN << >> ELSE SplitPieces(NomeProcedimento, 1, 1)

\* const reportNames = NomeProcedimento ? NomeProcedimento.split(...)... : []
reportNames(NomeProcedimento) ==
  LET pieces == splitPiecesOf(NomeProcedimento)
      trimmed == [i \in 1..Len(pieces) |-> trim(pieces[i])]
  IN SelectSeq(trimmed, NonEmpty)

Name_ImplanteSoroterapia ==
  <<"I", "m", "p", "l", "a", "n", "t", "e", ",", "S", "o", "r", "o", "t", "e", "r", "a", "p", "i", "a">>

Name_Im3Consulta ==
  <<"I", "m", ",", "3", "ordm", " ", "C", "o", "n", "s", "u", "l", "t", "a">>

Name_Estradiol ==
  <<"E", "s", "t", "r", "a", "d", "i", "o", "l", " ", "1", "2", ",", "5", "M", "g">>

Name_Tirzepatida ==
  <<"T", "i", "r", "z", "e", "p", "a", "t", "i", "d", "a", " ", "4", "0", "M", "g", "/", "1", ",", "6", "M", "l">>

\* one character of each class the split expression tells apart
SplitAlphabet == {"m", "aacute", "3", "ordm", ",", " ", "/"}

\* the longest generated name
MaxNameLen == 5

\* every name over SplitAlphabet up to MaxNameLen, and the documented examples
SplitNames ==
  UNION {[1..n -> SplitAlphabet] : n \in 0..MaxNameLen}
    \cup {Name_ImplanteSoroterapia, Name_Im3Consulta, Name_Estradiol,
           Name_Tirzepatida}

SplitInit ==
  /\ splitName \in SplitNames
  /\ splitPieces = << >>
  /\ splitTokens = << >>
  /\ splitDone = FALSE

\* the split of lines 471-473 (and 349-351) applied to the name
SplitName ==
  /\ ~splitDone
  /\ splitPieces' = splitPiecesOf(splitName)
  /\ splitTokens' = reportNames(splitName)
  /\ splitDone' = TRUE
  /\ UNCHANGED splitName
  /\ UNCHANGED <<classifyVars, batchVars, matchVars, envVars, payVars>>

-----------------------------------------------------------------------------
(* The upstream (Feegow) as the batch process sees it.                     *)
(* A date is a day number.  The report and the proposals give amounts in    *)
(* reais, the invoice gives them in cents; the amounts here are whole       *)
(* reais, so the cents of an invoice are multiples of 100.                  *)

Name_Consulta == <<"C", "o", "n", "s", "u", "l", "t", "a">>

Name_ConsultaNutri ==
  <<"C", "o", "n", "s", "u", "l", "t", "a", ",", "N", "u", "t", "r", "i">>

Name_Implante == <<"I", "m", "p", "l", "a", "n", "t", "e">>

Name_Soroterapia == <<"S", "o", "r", "o", "t", "e", "r", "a", "p", "i", "a">>

Name_ConsultaRecompra ==
  <<"C", "o", "n", "s", "u", "l", "t", "a", " ", "R", "e", "c", "o", "m", "p", "r", "a">>

\* a report name of three procedures
Name_ImplanteSoroterapiaConsulta ==
  Name_Implante \o <<",">> \o Name_Soroterapia \o <<",">> \o Name_Consulta

\* 'Procedimento', the name of an item whose report row carries no name
Name_Procedimento ==
  <<"P", "r", "o", "c", "e", "d", "i", "m", "e", "n", "t", "o">>

DigitChars == <<"0", "1", "2", "3", "4", "5", "6", "7", "8", "9">>

\* String(n) of a natural number
RECURSIVE Digits(_)
Digits(n) ==
  IF n < 10
    THEN <<DigitChars[n + 1]>>
    ELSE Digits(n \div 10) \o <<DigitChars[(n % 10) + 1]>>

\* `Procedimento #${id}`, the name of an invoice item whose procedure is unknown
Name_ProcedimentoNo(id) == Name_Procedimento \o <<" ", "#">> \o Digits(id)

\* the days the batches are run on, in calendar order
DateList == <<40, 50>>

\* the rows of the financial-movement report kept per day
MaxTx == 2

\* the batches one process runs
MaxBatches == 2

\* one row of the financial-movement report
Mov(pac, data, proc, value, nome, invoice) ==
  [PacienteID |-> pac, Data |-> data, ProcedimentoID |-> proc, Value |-> value,
   NomeProcedimento |-> nome, NumeroInvoice |-> invoice, Quantidade |-> 0]

\* the report rows of each day, in the order the report lists them
Ledger ==
  (40 :> << Mov(1, 40, 58, 305, Name_Tirzepatida, 0),
            Mov(1, 40, 58, 305, Name_Tirzepatida, 0),
            Mov(1, 40, 16, 200, Name_ConsultaNutri, 0),
            Mov(0, 40, 58, 305, Name_Tirzepatida, 0) >>)
  @@
  (50 :> << Mov(2, 50, 104, 500, Name_ImplanteSoroterapia, 7),
            Mov(1, 50, 16, 200, Name_Consulta, 8),
            Mov(2, 50, 104, 100, Name_ConsultaRecompra, 9),
            Mov(2, 50, 104, 500, Name_ImplanteSoroterapia, 7) >>)

\* the first n elements of a sequence
Take(s, n) == SubSeq(s, 1, IF Len(s) < n THEN Len(s) ELSE n)

\* response.data.data of POST /api/reports/generate for DATA_INICIO..DATA_FIM
RECURSIVE ReportRows(_, _, _)
ReportRows(from, to, d) ==
  IF d > Len(DateList)
    THEN << >>
    ELSE (IF from <= DateList[d] /\ DateList[d] <= to
            THEN Take(Ledger[DateList[d]], MaxTx)
            ELSE << >>)
         \o ReportRows(from, to, d + 1)

\* one procedure line of a proposal
ProposalItem(id, nome, valor, quantidade, desconto) ==
  [procedimento_id |-> id, nome |-> nome, valor |-> valor,
   quantidade |-> quantidade, desconto |-> desconto, acrescimo |-> 0]

\* one proposal of /api/proposal/list
Proposal(id, status, value, procedimentos) ==
  [proposal_id |-> id, status |-> status, value |-> value,
   procedimentos |-> procedimentos]

\* response.data.content of GET /api/proposal/list for a patient and a day
ProposalListing(pacienteId, date) ==
  IF pacienteId = 1 /\ date = 40
    THEN << Proposal(2, "Executada", 320,
                     <<ProposalItem(58, Name_Tirzepatida, 160, 2, 0)>>),
            Proposal(1, "Executada", 300,
                     <<ProposalItem(58, Name_Tirzepatida, 300, 0, 5)>>),
            Proposal(3, "Aguardando", 305,
                     <<ProposalItem(58, Name_Tirzepatida, 305, 1, 0)>>) >>
  ELSE IF pacienteId = 2 /\ date = 50
    THEN << Proposal(4, "Executada", 500,
                     <<ProposalItem(1, Name_Implante, 300, 1, 0),
                       [ProposalItem(40, Name_Soroterapia, 200, 1, 10)
                          EXCEPT !.acrescimo = 15]>>) >>
  ELSE << >>

\* detalhes[0].data of the invoice, 0 when the invoice has no details
InvoiceProposalDate(invoiceId) ==
  IF invoiceId = 7 THEN 50
  ELSE IF invoiceId = 8 THEN 45
  ELSE IF invoiceId = 9 THEN 5
  ELSE IF invoiceId = 10 THEN 10
  ELSE IF invoiceId = 11 THEN 9
  ELSE IF invoiceId = 12 THEN 71
  ELSE IF invoiceId = 13 THEN 70
  ELSE IF invoiceId = 14 THEN 40
  ELSE 0

\* one item of an invoice
InvoiceItem(id, valor, quantidade, desconto) ==
  [procedimento_id |-> id, valor |-> valor, quantidade |-> quantidade,
   desconto |-> desconto]

\* content[0].itens of GET /api/financial/list-invoice
InvoiceItems(invoiceId) ==
  IF invoiceId = 7
    THEN <<InvoiceItem(1, 30000, 1, 0), InvoiceItem(40, 20000, 0, 1000)>>
  ELSE IF invoiceId = 14
    THEN <<InvoiceItem(1, 25000, 1, 0), InvoiceItem(16, 5000, 2, 500)>>
  ELSE << >>

\* content[0].nome of GET /api/procedures/list
ProcedureName(procedureId) ==
  IF procedureId = 1 THEN Name_Implante
  ELSE IF procedureId = 40 THEN Name_Soroterapia
  ELSE IF procedureId = 58 THEN Name_Tirzepatida
  ELSE Name_Consulta

\* the days on which the patient has an appointment
AppointmentDays(patientId) == IF patientId = 1 THEN {50} ELSE {}

\* response.data.content of GET /api/appoints/search for data_start..data_end
AppointmentListing(patientId, from, to) ==
  {d \in AppointmentDays(patientId) : from <= d /\ d <= to}

\* the answer to the group listing the batch process draws from
BatchGroupResponses ==
  { [ok |-> TRUE,
     groups |-> << [id |-> 1, procedimentos |-> <<1>>],
                   [id |-> 2, procedimentos |-> <<58, 30>>],
                   [id |-> 3, procedimentos |-> <<16, 20, 21>>],
                   [id |-> 4, procedimentos |-> <<40>>],
                   [id |-> 9, procedimentos |-> <<90>>] >>],
    NoResponse }

-----------------------------------------------------------------------------
(* feegow.js: the failures of the requests to the upstream *)

\* error.response?.status of a failed request: 0 stands for an error without
\* response (network, timeout), the others are the HTTP status
FailureStatuses == {0, 401, 404, 409, 503}

\* the answers of a request in this run: 200 or one of the failures
ResponseStatuses == {200} \cup faults

-----------------------------------------------------------------------------
(* feegow.js: findMatchingProposal *)

\* null, where a proposal is expected
NoProposal == Proposal(0, "", 0, << >>)

\* Math.abs
Abs(n) == IF n < 0 THEN 0 - n ELSE n

\* (p.procedimentos?.data || []).some(proc => proc.procedimento_id === procId)
HasProcedure(p, procId) ==
  \E j \in DOMAIN p.procedimentos : p.procedimentos[j].procedimento_id = procId

\* the mutant of ClosestByValue: the candidates are not sorted by value
ClosestByValue_Unsorted(candidates, value) == candidates[1]

\* candidates.sort(by |value - Value|)[0]: the sort is stable, so the first
\* candidate among those nearest in value
ClosestByValue(candidates, value) ==
  candidates[CHOOSE j \in DOMAIN candidates :
               /\ \A m \in DOMAIN candidates :
                    Abs(candidates[j].value - value) <= Abs(candidates[m].value - value)
               /\ \A m \in 1..(j - 1) :
                    Abs(candidates[m].value - value) > Abs(candidates[j].value - value)]

\* the single-procedure branch of findMatchingProposal
MatchById(transaction, proposals) ==
  LET Holds(p) == HasProcedure(p, transaction.ProcedimentoID)
      candidates == SelectSeq(proposals, Holds)
  IN IF Len(candidates) = 1 THEN candidates[1]
     ELSE IF Len(candidates) > 1 THEN ClosestByValue(candidates, transaction.Value)
     ELSE NoProposal

\* propProcIds.filter(id => invoiceProcIds.has(id)).length
MatchCount(proposal, invoiceProcIds) ==
  Cardinality({j \in DOMAIN proposal.procedimentos :
                 proposal.procedimentos[j].procedimento_id \in invoiceProcIds})

\* for (const proposal of proposals), from proposal j on
RECURSIVE BestMatch(_, _, _, _)
BestMatch(proposals, invoiceProcIds, j, best) ==
  IF j > Len(proposals)
    THEN best
    ELSE LET matchCount == MatchCount(proposals[j], invoiceProcIds)
         IN BestMatch(proposals, invoiceProcIds, j + 1,
                      IF matchCount > best.bestMatchCount
                        THEN [bestProposal |-> proposals[j], bestMatchCount |-> matchCount]
                        ELSE best)

\* the mutant of MatchByItems: one procedure in common is enough
MatchByItems_OneInCommon(proposals, items) ==
  LET invoiceProcIds == {items[j].procedimento_id : j \in DOMAIN items}
      best == BestMatch(proposals, invoiceProcIds, 1,
                        [bestProposal |-> NoProposal, bestMatchCount |-> 0])
  IN IF Len(items) > 0 /\ best.bestProposal # NoProposal /\ best.bestMatchCount >= 1
       THEN best.bestProposal
       ELSE NoProposal

\* the multi-procedure branch of findMatchingProposal, the invoice items known
MatchByItems(proposals, items) ==
  LET invoiceProcIds == {items[j].procedimento_id : j \in DOMAIN items}
      best == BestMatch(proposals, invoiceProcIds, 1,
                        [bestProposal |-> NoProposal, bestMatchCount |-> 0])
  IN IF Len(items) > 0 /\ best.bestProposal # NoProposal /\ best.bestMatchCount >= 2
       THEN best.bestProposal
       ELSE NoProposal

\* const isMultiProcedure = reportNames.length > 1
isMultiProcedure(transaction) == Len(reportNames(transaction.NomeProcedimento)) > 1

\* findMatchingProposal(transaction, proposals), `items` being what its call of
\* fetchInvoiceItems is answered
findMatchingProposal(transaction, proposals, items) ==
  IF Len(proposals) = 0
    THEN NoProposal
  ELSE IF ~isMultiProcedure(transaction) /\ transaction.ProcedimentoID # 0
    THEN MatchById(transaction, proposals)
  ELSE IF isMultiProcedure(transaction) /\ transaction.NumeroInvoice # 0
    THEN MatchByItems(proposals, items)
  ELSE NoProposal

\* the proposals one call of the matcher is given
MaxProposals == 2

\* the proposals the calls of the matcher are drawn from
MatchPool ==
  << Proposal(1, "Executada", 300, <<ProposalItem(58, Name_Tirzepatida, 300, 1, 0)>>),
     Proposal(2, "Executada", 320,
              <<ProposalItem(58, Name_Tirzepatida, 160, 1, 0),
                ProposalItem(58, Name_Tirzepatida, 160, 1, 0)>>),
     Proposal(4, "Executada", 500,
              <<ProposalItem(1, Name_Implante, 300, 1, 0),
                ProposalItem(40, Name_Soroterapia, 200, 1, 10)>>),
     Proposal(5, "Executada", 310,
              <<ProposalItem(1, Name_Implante, 100, 1, 0),
                ProposalItem(16, Name_Consulta, 110, 1, 20),
                ProposalItem(40, Name_Soroterapia, 100, 1, 0)>>) >>

\* the lists of available proposals: no proposal is listed twice
MatchProposals ==
  LET picks == UNION {[1..n -> DOMAIN MatchPool] : n \in 0..MaxProposals}
      Distinct(s) == \A j, m \in DOMAIN s : j # m => s[j] # s[m]
  IN {[j \in DOMAIN s |-> MatchPool[s[j]]] : s \in {x \in picks : Distinct(x)}}

\* the transactions the matcher is called for
MatchTransactions ==
  {Mov(1, 40, proc, value, nome, invoice) :
     proc \in {0, 16, 58}, value \in {305, 310},
     nome \in {Name_Tirzepatida, Name_ImplanteSoroterapia}, invoice \in {0, 7}}

\* what fetchInvoiceItems answers the matcher; no item when it fails
MatchItems ==
  { << >>,
    <<InvoiceItem(1, 30000, 1, 0)>>,
    <<InvoiceItem(1, 30000, 1, 0), InvoiceItem(40, 20000, 1, 0)>>,
    <<InvoiceItem(1, 10000, 1, 0), InvoiceItem(16, 11000, 1, 0),
      InvoiceItem(40, 10000, 1, 0)>>,
    <<InvoiceItem(58, 16000, 1, 0), InvoiceItem(1, 30000, 1, 0)>> }

\* a call of the matcher about to be made
MatchInit ==
  matching \in [transaction : MatchTransactions, proposals : MatchProposals,
                items : MatchItems, done : {FALSE}, result : {NoProposal}]

\* no call of the matcher
MatchIdle ==
  matching = [transaction |-> Mov(0, 0, 0, 0, << >>, 0), proposals |-> << >>,
              items |-> << >>, done |-> FALSE, result |-> NoProposal]

\* const matchedProposal = await findMatchingProposal(transaction, availableProposals)
FindMatchingProposal ==
  /\ ~matching.done
  /\ matching' =
       [matching EXCEPT
          !.done = TRUE,
          !.result = findMatchingProposal(matching.transaction, matching.proposals,
                                          matching.items)]
  /\ UNCHANGED <<classifyVars, splitVars, batchVars, envVars, payVars>>

-----------------------------------------------------------------------------
(* feegow.js: the values enrichTransactionWithItems returns *)

\* quantidade || 1
QuantityOr1(q) == IF q # 0 THEN q ELSE 1

DetailedItem(id, nome, valor, quantidade, desconto, acrescimo) ==
  [procedimento_id |-> id, nome |-> nome, valor |-> valor,
   quantidade |-> quantidade, desconto |-> desconto, acrescimo |-> acrescimo]

\* { ...transaction, paymentOnly, fonteItens, detailedItems }; fromProposal is
\* history: the proposal_id the items were built from, 0 for none
Enriched(transaction, paymentOnly, fonteItens, detailedItems, fromProposal) ==
  [mov |-> transaction, paymentOnly |-> paymentOnly, fonteItens |-> fonteItens,
   detailedItems |-> detailedItems, fromProposal |-> fromProposal]

\* the mutant of ProposalDetailedItems: the unit value, not multiplied
ProposalDetailedItems_UnitValue(matchedProposal) ==
  [j \in 1..Len(matchedProposal.procedimentos) |->
     LET proc == matchedProposal.procedimentos[j]
     IN DetailedItem(proc.procedimento_id, proc.nome, proc.valor,
                     QuantityOr1(proc.quantidade), proc.desconto, proc.acrescimo)]

\* matchedProposal.procedimentos.data.map(...)
ProposalDetailedItems(matchedProposal) ==
  [j \in 1..Len(matchedProposal.procedimentos) |->
     LET proc == matchedProposal.procedimentos[j]
     IN DetailedItem(proc.procedimento_id, proc.nome,
                     proc.valor * QuantityOr1(proc.quantidade),
                     QuantityOr1(proc.quantidade), proc.desconto, proc.acrescimo)]

\* the mutant of SingleDetailedItems: the item has no procedure id
SingleDetailedItems_NoId(transaction) ==
  << DetailedItem(0, transaction.NomeProcedimento, transaction.Value,
                  QuantityOr1(transaction.Quantidade), 0, 0) >>

\* the single item of a report-single transaction
SingleDetailedItems(transaction) ==
  << DetailedItem(transaction.ProcedimentoID,
                  IF Len(transaction.NomeProcedimento) > 0
                    THEN transaction.NomeProcedimento
                    ELSE Name_Procedimento,
                  transaction.Value, QuantityOr1(transaction.Quantidade), 0, 0) >>

\* the mutant of DistributedDetailedItems: every item has the whole value
DistributedDetailedItems_Undivided(transaction, names) ==
  [j \in 1..Len(names) |-> DetailedItem(0, names[j], transaction.Value, 1, 0, 0)]

\* reportNames.map(nome => ...), the value shared equally; the amounts of the
\* ledger are multiples of the number of names
DistributedDetailedItems(transaction, names) ==
  [j \in 1..Len(names) |->
     DetailedItem(0, names[j], transaction.Value \div Len(names), 1, 0, 0)]

\* proc?.nome || `Procedimento #${item.procedimento_id}`
NameOr(nome, id) == IF Len(nome) > 0 THEN nome ELSE Name_ProcedimentoNo(id)

\* the mutant of InvoiceDetailedItem: the cents are taken for reais
InvoiceDetailedItem_InCents(item, nome) ==
  DetailedItem(item.procedimento_id, NameOr(nome, item.procedimento_id),
               item.valor, QuantityOr1(item.quantidade), item.desconto, 0)

\* one item of an invoice transaction: valor / 100 and (desconto || 0) / 100,
\* the invoice answering in cents
InvoiceDetailedItem(item, nome) ==
  DetailedItem(item.procedimento_id, NameOr(nome, item.procedimento_id),
               item.valor \div 100, QuantityOr1(item.quantidade),
               item.desconto \div 100, 0)

\* for (const item of items), from item k on, as long as fetchProcedureWithCache
\* answers from its cache
RECURSIVE ScanItems(_, _, _, _)
ScanItems(items, k, detailedItems, cache) ==
  IF k > Len(items) \/ items[k].procedimento_id \notin DOMAIN cache
    THEN [k |-> k, detailedItems |-> detailedItems]
    ELSE ScanItems(items, k + 1,
                   Append(detailedItems,
                          InvoiceDetailedItem(items[k], cache[items[k].procedimento_id])),
                   cache)

\* daysDiff > 30
PaymentOnlyDays == 30

\* the mutant of IsOldProposal: 30 days are enough
IsOldProposal_From30Days(transaction, proposalDate) ==
  /\ proposalDate # 0
  /\ proposalDate # transaction.Data
  /\ Abs(transaction.Data - proposalDate) >= PaymentOnlyDays

\* the payment-only test of lines 410-417
IsOldProposal(transaction, proposalDate) ==
  /\ proposalDate # 0
  /\ proposalDate # transaction.Data
  /\ Abs(transaction.Data - proposalDate) > PaymentOnlyDays

-----------------------------------------------------------------------------
(* feegow.js: enrichTransactionWithItems, one action per await *)

\* the call enrichTransactionWithItems(transaction) suspended at `at`
Task(at, transaction, available, items, k, detailedItems) ==
  [at |-> at, mov |-> transaction, available |-> available, items |-> items,
   k |-> k, detailedItems |-> detailedItems]

\* the call suspended before it has any local but its argument
TaskAt(at, transaction) == Task(at, transaction, << >>, << >>, 0, << >>)

\* map.delete(key) on a Map held as a function
MapDelete(mapping, key) == [x \in DOMAIN mapping \ {key} |-> mapping[x]]

\* the mutant of Finish: the record is put in front of the list
Finish_Unshift(t, enriched) ==
  /\ tasks' = MapDelete(tasks, t)
  /\ enrichedTransactions' = <<enriched>> \o enrichedTransactions

\* the call of transaction t returns `enriched`: enrichedTransactions.push(enriched)
Finish(t, enriched) ==
  /\ tasks' = MapDelete(tasks, t)
  /\ enrichedTransactions' = Append(enrichedTransactions, enriched)

\* the call of transaction t waits for an answer
Suspend(t, task) ==
  /\ tasks' = MapSet(tasks, t, task)
  /\ UNCHANGED enrichedTransactions

\* history: a call that has been answered nothing yet; proposalDate is what
\* fetchInvoiceProposalDate returned (0 for null), matched the proposal_id
\* findMatchingProposal returned (0 for null), items what fetchInvoiceItems
\* returned at line 506, procedures the names fetchProcedureWithCache returned
\* (empty for null), failed the requests of the call that failed and the
\* status of each, kept until the next call begins, thrown whether the call
\* has thrown
NoAnswers ==
  [proposalDate |-> 0, matched |-> 0, items |-> << >>, procedures |-> << >>,
   failed |-> {}, thrown |-> FALSE]

\* history: the calls before the one that begins keep their answers only
Earlier(heard) == [t \in DOMAIN heard |-> [heard[t] EXCEPT !.failed = {}]]

\* the mutant of OrDefault: a failed request is answered like a successful one
OrDefault_Answered(status, value, default) == value

\* try { ... return value } catch (error) { return default }: every failure
\* of the request, whatever its status, gives the default (lines 130-133,
\* 173-176, 193-196, 327-331)
OrDefault(status, value, default) == IF status = 200 THEN value ELSE default

\* history: the request `call` was answered `status`
Answered(failed, call, status) ==
  IF status = 200 THEN failed ELSE failed \cup {[call |-> call, status |-> status]}

\* history: the names the cache returned for the items from `from` up to `to`
Lookups(items, from, to, cache) ==
  [j \in 1..(to - from) |-> cache[items[from + j - 1].procedimento_id]]

\* lines 464-506: the fallback to the report and the invoice
Fallback(t, transaction) ==
  LET names == reportNames(transaction.NomeProcedimento)
  IN IF Len(names) <= 1
       THEN Finish(t, Enriched(transaction, FALSE, "report-single",
                               SingleDetailedItems(transaction), 0))
     ELSE IF transaction.NumeroInvoice = 0
       THEN Finish(t, Enriched(transaction, FALSE, "report-distributed",
                               DistributedDetailedItems(transaction, names), 0))
     ELSE Suspend(t, TaskAt("items", transaction))

\* the mutant of AfterMatch: the matched proposal is used and not recorded
AfterMatch_Unrecorded(t, transaction, matchedProposal, heard) ==
  /\ UNCHANGED usedProposalIds
  /\ answers' = [heard EXCEPT ![t].matched = matchedProposal.proposal_id]
  /\ IF matchedProposal # NoProposal /\ Len(matchedProposal.procedimentos) > 0
       THEN Finish(t, Enriched(transaction, FALSE, "proposal",
                               ProposalDetailedItems(matchedProposal),
                               matchedProposal.proposal_id))
       ELSE Fallback(t, transaction)

\* the mutant of AfterMatch: the report is preferred to the matched proposal
AfterMatch_ReportFirst(t, transaction, matchedProposal, heard) ==
  /\ UNCHANGED usedProposalIds
  /\ answers' = [heard EXCEPT ![t].matched = matchedProposal.proposal_id]
  /\ Fallback(t, transaction)

\* lines 441-462: the matcher has answered; heard is the history with the
\* answer that let the matcher run
AfterMatch(t, transaction, matchedProposal, heard) ==
  IF matchedProposal # NoProposal /\ Len(matchedProposal.procedimentos) > 0
    THEN /\ usedProposalIds' = usedProposalIds \cup {matchedProposal.proposal_id}
         /\ answers' = [heard EXCEPT ![t].matched = matchedProposal.proposal_id]
         /\ Finish(t, Enriched(transaction, FALSE, "proposal",
                               ProposalDetailedItems(matchedProposal),
                               matchedProposal.proposal_id))
    ELSE /\ UNCHANGED usedProposalIds
         /\ answers' = [heard EXCEPT ![t].matched = matchedProposal.proposal_id]
         /\ Fallback(t, transaction)

\* the mutant of availableProposals: the used proposals are not filtered out
availableProposals_Unfiltered(proposals) == proposals

\* proposals.filter(p => !usedProposalIds.has(p.proposal_id))
availableProposals(proposals) ==
  LET Unused(p) == p.proposal_id \notin usedProposalIds
  IN SelectSeq(proposals, Unused)

\* lines 436-439 and findMatchingProposal up to its await: the proposals of the
\* patient are known
WithProposals(t, transaction, proposals, heard) ==
  LET available == availableProposals(proposals)
  IN IF Len(available) = 0
       THEN /\ UNCHANGED usedProposalIds
            /\ answers' = heard
            /\ Fallback(t, transaction)
     ELSE IF ~isMultiProcedure(transaction) /\ transaction.ProcedimentoID # 0
       THEN AfterMatch(t, transaction, MatchById(transaction, available), heard)
     ELSE IF isMultiProcedure(transaction) /\ transaction.NumeroInvoice # 0
       THEN /\ Suspend(t, Task("matchItems", transaction, available, << >>, 0, << >>))
            /\ UNCHANGED usedProposalIds
            /\ answers' = heard
     ELSE AfterMatch(t, transaction, NoProposal, heard)

\* line 432: the payment-only test is over
AfterDate(t, transaction) ==
  /\ UNCHANGED usedProposalIds
  /\ IF transaction.PacienteID # 0
       THEN Suspend(t, TaskAt("proposals", transaction))
       ELSE Fallback(t, transaction)

\* lines 528-546: the items of the invoice from item k on
Procedures(t, transaction, items, k, detailedItems, cache) ==
  LET scan == ScanItems(items, k, detailedItems, cache)
  IN IF scan.k > Len(items)
       THEN Finish(t, Enriched(transaction, FALSE, "invoice", scan.detailedItems, 0))
       ELSE Suspend(t, Task("procedure", transaction, << >>, items, scan.k,
                            scan.detailedItems))

\* what every enrichment step leaves alone
throwFrame ==
  <<batch, startDate, endDate, transactions, consumedBefore,
    appointmentsCache, groupedTransactions, cursor, row, insertedRows,
    classifyVars, splitVars, matchVars, envVars, payVars>>

\* what an enrichment step that does not throw leaves alone
enrichFrame == <<pc, throwFrame>>

\* the mutant of AwaitEnriched: the loop does not await the call it made
AwaitEnriched_NoAwait == TRUE

\* const enriched = await enrichTransactionWithItems(mov): the loop goes on
\* when the call it made has returned
AwaitEnriched == DOMAIN tasks = {}

\* for (let i = 0; ...) { const mov = transactions[i]; await enrich...(mov) }:
\* the call of the next transaction, up to its first await
EnrichBegin ==
  /\ pc = "loop"
  /\ loopIndex < Len(transactions)
  /\ AwaitEnriched
  /\ LET t == loopIndex + 1
         mov == transactions[t]
     IN /\ loopIndex' = t
        /\ answers' = MapSet(Earlier(answers), t, NoAnswers)
        /\ IF mov.NumeroInvoice # 0
             THEN Suspend(t, TaskAt("date", mov)) /\ UNCHANGED usedProposalIds
             ELSE AfterDate(t, mov)
  /\ UNCHANGED <<proposalsCache, proceduresCache, storedIn>>
  /\ UNCHANGED enrichFrame

\* the mutant of Throw: the records enriched so far are handed to the writers
Throw_PartialOutput(t) ==
  /\ tasks' = MapDelete(tasks, t)
  /\ pc' = "mapping"
  /\ UNCHANGED enrichedTransactions

\* an exception leaves enrichTransactionWithItems: nothing catches it in
\* fetchDetailedTransactions (lines 566-575), whose promise is rejected, and
\* the driver ends the process (index.js 75-83, gerar-historico.js 121-124)
Throw(t) ==
  /\ tasks' = MapDelete(tasks, t)
  /\ pc' = "exit"
  /\ UNCHANGED enrichedTransactions

\* transaction.Data.split('/') (line 412) and date.replace (line 312) of a row
\* without Data: TypeError
SplitThrows(transaction) == transaction.Data = 0

\* fetchInvoiceProposalDate answers the date of the proposal, or fails and
\* returns null; lines 410-432 then compare it with the date of the row
DateResponse ==
  \E t \in DOMAIN tasks, status \in ResponseStatuses :
    /\ tasks[t].at = "date"
    /\ LET mov == tasks[t].mov
           proposalDate ==
             OrDefault(status, InvoiceProposalDate(mov.NumeroInvoice), 0)
           thrown == proposalDate # 0 /\ proposalDate # mov.Data /\ SplitThrows(mov)
       IN /\ IF thrown
               THEN Throw(t) /\ UNCHANGED usedProposalIds
             ELSE IF IsOldProposal(mov, proposalDate)
               THEN /\ Finish(t, Enriched(mov, TRUE, "payment-only", << >>, 0))
                    /\ UNCHANGED <<pc, usedProposalIds>>
               ELSE AfterDate(t, mov) /\ UNCHANGED pc
          /\ answers' =
               [answers EXCEPT
                  ![t].proposalDate = proposalDate,
                  ![t].failed = Answered(@, "date", status),
                  ![t].thrown = thrown]
    /\ UNCHANGED <<loopIndex, proposalsCache, proceduresCache, storedIn>>
    /\ UNCHANGED throwFrame

\* const cacheKey = `${pacienteId}_${date}`
ProposalsKey(transaction) == <<transaction.PacienteID, transaction.Data>>

\* fetchPatientProposals up to its await: the cache answers, or the listing is
\* requested; date.replace of a row without Data throws inside the try (line
\* 312), and the catch caches and returns no proposal
FetchPatientProposals ==
  \E t \in DOMAIN tasks :
    /\ tasks[t].at = "proposals"
    /\ LET mov == tasks[t].mov
       IN IF ProposalsKey(mov) \in DOMAIN proposalsCache
            THEN /\ WithProposals(t, mov, proposalsCache[ProposalsKey(mov)], answers)
                 /\ UNCHANGED <<proposalsCache, storedIn>>
          ELSE IF SplitThrows(mov)
            THEN /\ proposalsCache' = MapSet(proposalsCache, ProposalsKey(mov), << >>)
                 /\ storedIn' =
                      [storedIn EXCEPT
                         !.proposals = MapSet(@, ProposalsKey(mov), batch)]
                 /\ WithProposals(t, mov, << >>, answers)
            ELSE /\ Suspend(t, TaskAt("proposalsGet", mov))
                 /\ UNCHANGED <<usedProposalIds, answers, proposalsCache, storedIn>>
    /\ UNCHANGED <<loopIndex, proceduresCache>>
    /\ UNCHANGED enrichFrame

\* the mutant of IsExecuted: every status passes the filter
IsExecuted_AnyStatus(p) == TRUE

\* p.status === 'Executada'
IsExecuted(p) == p.status = "Executada"

\* /api/proposal/list answers or fails: the list is cached either way
ProposalsResponse ==
  \E t \in DOMAIN tasks, status \in ResponseStatuses :
    /\ tasks[t].at = "proposalsGet"
    /\ LET mov == tasks[t].mov
           proposals ==
             OrDefault(status,
                       SelectSeq(ProposalListing(mov.PacienteID, mov.Data), IsExecuted),
                       << >>)
       IN /\ proposalsCache' = MapSet(proposalsCache, ProposalsKey(mov), proposals)
          /\ storedIn' =
               [storedIn EXCEPT
                  !.proposals = MapSet(@, ProposalsKey(mov), batch)]
          /\ WithProposals(t, mov, proposals,
                           [answers EXCEPT
                              ![t].failed = Answered(@, "proposals", status)])
    /\ UNCHANGED <<loopIndex, proceduresCache>>
    /\ UNCHANGED enrichFrame

\* fetchInvoiceItems of findMatchingProposal answers; a failure gives no items
MatchItemsResponse ==
  \E t \in DOMAIN tasks, status \in ResponseStatuses :
    /\ tasks[t].at = "matchItems"
    /\ LET mov == tasks[t].mov
           items == OrDefault(status, InvoiceItems(mov.NumeroInvoice), << >>)
       IN AfterMatch(t, mov, MatchByItems(tasks[t].available, items),
                     [answers EXCEPT ![t].failed = Answered(@, "matchItems", status)])
    /\ UNCHANGED <<loopIndex, proposalsCache, proceduresCache, storedIn>>
    /\ UNCHANGED enrichFrame

\* fetchInvoiceItems of line 506 answers; a failure gives no items
ItemsResponse ==
  \E t \in DOMAIN tasks, status \in ResponseStatuses :
    /\ tasks[t].at = "items"
    /\ LET mov == tasks[t].mov
           items == OrDefault(status, InvoiceItems(mov.NumeroInvoice), << >>)
           scan == ScanItems(items, 1, << >>, proceduresCache)
       IN /\ IF Len(items) = 0
               THEN Finish(t, Enriched(mov, FALSE, "report-distributed",
                                       DistributedDetailedItems(
                                         mov, reportNames(mov.NomeProcedimento)),
                                       0))
               ELSE Procedures(t, mov, items, 1, << >>, proceduresCache)
          /\ answers' =
               [answers EXCEPT
                  ![t].items = items,
                  ![t].procedures = Lookups(items, 1, scan.k, proceduresCache),
                  ![t].failed = Answered(@, "items", status)]
    /\ UNCHANGED <<loopIndex, usedProposalIds, proposalsCache, proceduresCache, storedIn>>
    /\ UNCHANGED enrichFrame

\* the mutant of ProcedureResponse: whatever fetchProcedure returned is cached
ProcedureResponse_NullCached ==
  \E t \in DOMAIN tasks, status \in ResponseStatuses, found \in BOOLEAN :
    /\ tasks[t].at = "procedure"
    /\ LET mov == tasks[t].mov
           items == tasks[t].items
           k == tasks[t].k
           id == items[k].procedimento_id
           nome == OrDefault(status, IF found THEN ProcedureName(id) ELSE << >>, << >>)
           cache == MapSet(proceduresCache, id, nome)
       IN /\ proceduresCache' = cache
          /\ Procedures(t, mov, items, k + 1,
                        Append(tasks[t].detailedItems,
                               InvoiceDetailedItem(items[k], nome)),
                        cache)
          /\ answers' =
               [answers EXCEPT
                  ![t].procedures =
                     Append(@, nome)
                       \o Lookups(items, k + 1,
                                  ScanItems(items, k + 1, << >>, cache).k, cache),
                  ![t].failed = Answered(@, "procedure", status)]
    /\ UNCHANGED <<loopIndex, usedProposalIds, proposalsCache, storedIn>>
    /\ UNCHANGED enrichFrame

\* fetchProcedure answers for item k: the procedure, or null when the request
\* failed or the upstream has no such procedure
ProcedureResponse ==
  \E t \in DOMAIN tasks, status \in ResponseStatuses, found \in BOOLEAN :
    /\ tasks[t].at = "procedure"
    /\ LET mov == tasks[t].mov
           items == tasks[t].items
           k == tasks[t].k
           id == items[k].procedimento_id
           nome == OrDefault(status, IF found THEN ProcedureName(id) ELSE << >>, << >>)
           cache == IF nome # << >> THEN MapSet(proceduresCache, id, nome)
                                    ELSE proceduresCache
       IN /\ proceduresCache' = cache
          /\ Procedures(t, mov, items, k + 1,
                        Append(tasks[t].detailedItems,
                               InvoiceDetailedItem(items[k], nome)),
                        cache)
          /\ answers' =
               [answers EXCEPT
                  ![t].procedures =
                     Append(@, nome)
                       \o Lookups(items, k + 1,
                                  ScanItems(items, k + 1, << >>, cache).k, cache),
                  ![t].failed = Answered(@, "procedure", status)]
    /\ UNCHANGED <<loopIndex, usedProposalIds, proposalsCache, storedIn>>
    /\ UNCHANGED enrichFrame

-----------------------------------------------------------------------------
(* feegow.js: fetchDetailedTransactions, called once per batch by its driver *)
(* (run-todos-meses.js: one batch per period, all in one process)            *)

NoCursor == [g |-> 0, k |-> 0, attempt |-> 0, status |-> 0]

\* const procedureValues = {}; const classificationDetails = []; discountTotal = 0
EmptyRow ==
  [procedureValues |-> << >>, discountTotal |-> 0, classificationDetails |-> << >>]

\* what the batch steps of the driver leave alone
driverFrame ==
  <<tasks, proposalsCache, proceduresCache, appointmentsCache, storedIn,
    groupedTransactions, cursor, row, insertedRows, classifyVars, splitVars, matchVars, envVars, payVars>>

\* the driver calls fetchDetailedTransactions(startDate, endDate), which
\* requests the report
StartBatch ==
  /\ pc = "idle"
  /\ batch < MaxBatches
  /\ \E from \in Range(DateList), to \in Range(DateList) :
       /\ from <= to
       /\ startDate' = from
       /\ endDate' = to
  /\ batch' = batch + 1
  /\ pc' = "report"
  /\ UNCHANGED <<transactions, loopIndex, enrichedTransactions, usedProposalIds,
                 consumedBefore, answers>>
  /\ UNCHANGED driverFrame

\* the mutant of clear: the set keeps its elements
clear_Keep(set) == set

\* Set.prototype.clear
clear(set) == {}

\* the mutant of ReportThrows: the set is cleared before the report is awaited
ReportThrows_Cleared ==
  /\ pc' = "exit"
  /\ usedProposalIds' = clear(usedProposalIds)
  /\ UNCHANGED <<transactions, consumedBefore>>

\* fetchTransactions throws (lines 46-60) at line 557, before
\* usedProposalIds.clear(); the process of the driver ends
ReportThrows ==
  /\ pc' = "exit"
  /\ UNCHANGED <<transactions, usedProposalIds, consumedBefore>>

\* fetchTransactions answers: the rows of the report, then
\* usedProposalIds.clear(); or the request fails, or the body says success
\* false, and it throws
ReportResponse ==
  /\ pc = "report"
  /\ \E status \in ResponseStatuses, success \in BOOLEAN :
       IF status = 200 /\ success
         THEN /\ transactions' = ReportRows(startDate, endDate, 1)
              /\ usedProposalIds' = clear(usedProposalIds)
              /\ consumedBefore' = consumedBefore \cup usedProposalIds
              /\ pc' = "loop"
         ELSE ReportThrows
  /\ loopIndex' = 0
  /\ enrichedTransactions' = << >>
  /\ answers' = << >>
  /\ UNCHANGED <<batch, startDate, endDate>>
  /\ UNCHANGED driverFrame

-----------------------------------------------------------------------------
(* excel.js: groupTransactions *)

\* the mutant of GroupIndex: the key is the patient alone
GroupIndex_ByPatient(groups, patientId, date) ==
  IF \E j \in DOMAIN groups : groups[j].patientId = patientId
    THEN CHOOSE j \in DOMAIN groups : groups[j].patientId = patientId
    ELSE 0

\* the position in groups of the group with this key, 0 when there is none
GroupIndex(groups, patientId, date) ==
  IF \E j \in DOMAIN groups : groups[j].patientId = patientId /\ groups[j].date = date
    THEN CHOOSE j \in DOMAIN groups :
           groups[j].patientId = patientId /\ groups[j].date = date
    ELSE 0

\* the body of the loop of groupTransactions for one transaction
AddToGroup(groups, enriched) ==
  LET at == GroupIndex(groups, enriched.mov.PacienteID, enriched.mov.Data)
      withKey ==
        IF at # 0
          THEN groups
          ELSE Append(groups, [patientId |-> enriched.mov.PacienteID,
                               date |-> enriched.mov.Data,
                               transactions |-> << >>,
                               detailedItems |-> << >>])
      j == IF at # 0 THEN at ELSE Len(withKey)
  IN [withKey EXCEPT
        ![j].transactions = Append(@, enriched),
        ![j].detailedItems = @ \o enriched.detailedItems]

\* for (const mov of transactions), from transaction n on
RECURSIVE GroupFrom(_, _, _)
GroupFrom(groups, enrichedList, n) ==
  IF n > Len(enrichedList)
    THEN groups
    ELSE GroupFrom(AddToGroup(groups, enrichedList[n]), enrichedList, n + 1)

groupTransactions(enrichedList) == GroupFrom(<< >>, enrichedList, 1)

-----------------------------------------------------------------------------
(* excel.js: updateSpreadsheetCustom and buildRow; feegow.js:                *)
(* fetchPatientAppointments and checkAppointmentDate                         *)

\* what the row steps leave alone
rowFrame ==
  <<batch, startDate, endDate, transactions, loopIndex, enrichedTransactions, tasks,
    usedProposalIds, consumedBefore, proposalsCache, proceduresCache,
    lastCall, memoCall, otherBetween, splitVars, matchVars, envVars, payVars>>

\* fetchDetailedTransactions returns its list to the driver, which calls
\* updateSpreadsheetCustom(workbook, sheet, transactions, startDate)
BatchReturn ==
  /\ pc = "loop"
  /\ loopIndex = Len(transactions)
  /\ AwaitEnriched
  /\ pc' = "mapping"
  /\ answers' = << >>
  /\ UNCHANGED <<groupsCache, groupMapping, loadedFrom, appointmentsCache, storedIn,
                 groupedTransactions, cursor, row, insertedRows>>
  /\ UNCHANGED rowFrame

\* groupMapping = await fetchGroupMapping(); then groupTransactions(transactions)
UpdateSpreadsheet ==
  /\ pc = "mapping"
  /\ \E response \in BatchGroupResponses :
       /\ fetchGroupMapping(response)
       /\ groupMapping' = groupsCache'
  /\ groupedTransactions' = groupTransactions(enrichedTransactions)
  /\ cursor' = [g |-> 1, k |-> 1, attempt |-> 0, status |-> 0]
  /\ row' = EmptyRow
  /\ insertedRows' = << >>
  /\ pc' = "rows"
  /\ UNCHANGED <<appointmentsCache, storedIn>>
  /\ UNCHANGED <<rowFrame, answers>>

\* one entry of classificationDetails
Detail(item, colunaDestino, colunaDestinoNome, classificadoPor) ==
  [procedimentoId |-> item.procedimento_id, valor |-> item.valor,
   colunaDestino |-> colunaDestino, colunaDestinoNome |-> colunaDestinoNome,
   classificadoPor |-> classificadoPor]

\* item.desconto * (item.quantidade || 1) when item.desconto > 0, else nothing
ItemDiscount(item) ==
  IF item.desconto > 0 THEN item.desconto * QuantityOr1(item.quantidade) ELSE 0

\* procedureValues[column] = (procedureValues[column] || 0) + value
AddValue(procedureValues, column, value) ==
  MapSet(procedureValues, column,
         (IF column \in DOMAIN procedureValues THEN procedureValues[column] ELSE 0)
           + value)

\* the reverse of COLUMNS: column letter -> readable name
COLUMN_NAMES ==
  [col \in {COLUMNS[name] : name \in DOMAIN COLUMNS} |->
     CHOOSE name \in DOMAIN COLUMNS : COLUMNS[name] = col]

\* COLUMN_NAMES[column] || column
ColumnNameOr(column) ==
  IF column \in DOMAIN COLUMN_NAMES THEN COLUMN_NAMES[column] ELSE column

\* the mutant of Realized: the value is counted and no detail is recorded
Realized_Unrecorded(item, classified) ==
  [row EXCEPT
     !.procedureValues = AddValue(@, classified.column, item.valor),
     !.discountTotal = @ + ItemDiscount(item)]

\* lines 817-828: the item goes to its column
Realized(item, classified) ==
  [row EXCEPT
     !.procedureValues = AddValue(@, classified.column, item.valor),
     !.discountTotal = @ + ItemDiscount(item),
     !.classificationDetails =
        Append(@, Detail(item, classified.column,
                         ColumnNameOr(classified.column),
                         classified.classificadoPor))]

\* lines 770-783: the item is discarded; its discount stays accumulated
Discarded(item, classified) ==
  [row EXCEPT
     !.discountTotal = @ + ItemDiscount(item),
     !.classificationDetails =
        Append(@, Detail(item, NULL, "DESCARTADO", classified.classificadoPor))]

\* the mutant of SignalPayment: the discount is not taken back
SignalPayment_DiscountKept(item) ==
  [row EXCEPT
     !.discountTotal = @ + ItemDiscount(item),
     !.classificationDetails =
        Append(@, Detail(item, NULL, "SINAL_ANTECIPADO", "agendamento-futuro"))]

\* lines 795-813: an evaluation paid ahead; its discount is taken back
SignalPayment(item) ==
  [row EXCEPT
     !.classificationDetails =
        Append(@, Detail(item, NULL, "SINAL_ANTECIPADO", "agendamento-futuro"))]

\* the item buildRow is at
CurrentGroup == groupedTransactions[cursor.g]

CurrentItem == CurrentGroup.detailedItems[cursor.k]

\* buildRow has returned for the group: the row is inserted
RowOf(group, built) ==
  [patientId |-> group.patientId, date |-> group.date,
   procedureValues |-> built.procedureValues,
   discountTotal |-> built.discountTotal,
   classificationDetails |-> built.classificationDetails]

\* for (const item of group.detailedItems): one item, up to the await of
\* checkAppointmentDate; after the last item the row is inserted
BuildRowStep ==
  /\ pc = "rows"
  /\ cursor.g <= Len(groupedTransactions)
  /\ IF cursor.k > Len(CurrentGroup.detailedItems)
       THEN /\ insertedRows' = Append(insertedRows, RowOf(CurrentGroup, row))
            /\ row' = EmptyRow
            /\ cursor' = [g |-> cursor.g + 1, k |-> 1, attempt |-> 0, status |-> 0]
            /\ pc' = "rows"
       ELSE LET item == CurrentItem
                classified == classifyProcedure(item.nome, item.procedimento_id)
            IN /\ UNCHANGED insertedRows
               /\ IF classified.column = NULL
                    THEN /\ row' = Discarded(item, classified)
                         /\ cursor' = [cursor EXCEPT !.k = @ + 1]
                         /\ pc' = "rows"
                  ELSE IF classified.column = COLUMNS.AVALIACAO
                    THEN /\ UNCHANGED <<row, cursor>>
                         /\ pc' = "check"
                  ELSE /\ row' = Realized(item, classified)
                       /\ cursor' = [cursor EXCEPT !.k = @ + 1]
                       /\ pc' = "rows"
  /\ UNCHANGED <<groupsCache, groupMapping, loadedFrom, appointmentsCache, storedIn,
                 groupedTransactions>>
  /\ UNCHANGED <<rowFrame, answers>>

\* ±7 days around the date
AppointmentWindowDays == 7

MAX_RETRIES == 3

\* the patient checkAppointmentDate is called for
CheckedPatient == CurrentGroup.transactions[1].mov.PacienteID

\* buildRow(group, date): the date updateSpreadsheetCustom was given by the
\* driver, which is the start of the period of the batch
referenceDate == startDate

\* the mutant of AfterAppointments: a failed search counts as no appointment
AfterAppointments_ErrorAsNone(result) ==
  LET item == CurrentItem
      classified == classifyProcedure(item.nome, item.procedimento_id)
      hasAppointmentToday == referenceDate \in result.appointments
  IN /\ row' = IF ~hasAppointmentToday
                 THEN SignalPayment(item)
                 ELSE Realized(item, classified)
     /\ cursor' = [cursor EXCEPT !.k = @ + 1, !.attempt = 0, !.status = 0]
     /\ pc' = "rows"

\* the rest of checkAppointmentDate(patientId, referenceDate) and of the
\* item's turn in buildRow, the appointments known
AfterAppointments(result) ==
  LET item == CurrentItem
      classified == classifyProcedure(item.nome, item.procedimento_id)
      hasAppointmentToday == referenceDate \in result.appointments
  IN /\ row' = IF ~result.apiError /\ ~hasAppointmentToday
                 THEN SignalPayment(item)
                 ELSE Realized(item, classified)
     /\ cursor' = [cursor EXCEPT !.k = @ + 1, !.attempt = 0, !.status = 0]
     /\ pc' = "rows"

\* the mutant of FetchPatientAppointments: a memoized failure is searched again
FetchPatientAppointments_ErrorRetried ==
  /\ pc = "check"
  /\ IF /\ CheckedPatient \in DOMAIN appointmentsCache
        /\ ~appointmentsCache[CheckedPatient].apiError
       THEN AfterAppointments(appointmentsCache[CheckedPatient])
       ELSE /\ cursor' = [cursor EXCEPT !.attempt = 1]
            /\ pc' = "appointments"
            /\ UNCHANGED row
  /\ UNCHANGED <<groupsCache, groupMapping, loadedFrom, appointmentsCache, storedIn,
                 groupedTransactions, insertedRows>>
  /\ UNCHANGED <<rowFrame, answers>>

\* fetchPatientAppointments up to its await: the cache answers, or the search
\* is requested
FetchPatientAppointments ==
  /\ pc = "check"
  /\ IF CheckedPatient \in DOMAIN appointmentsCache
       THEN AfterAppointments(appointmentsCache[CheckedPatient])
       ELSE /\ cursor' = [cursor EXCEPT !.attempt = 1]
            /\ pc' = "appointments"
            /\ UNCHANGED row
  /\ UNCHANGED <<groupsCache, groupMapping, loadedFrom, appointmentsCache, storedIn,
                 groupedTransactions, insertedRows>>
  /\ UNCHANGED <<rowFrame, answers>>


\* the mutant of isRetryable: every failure is retried
isRetryable_Always(status) == TRUE

\* line 650: const isRetryable = !status || status === 409 || status >= 500
isRetryable(status) == status = 0 \/ status = 409 \/ status >= 500

\* the mutant of errorResult: the failed search looks like an empty answer
errorResult_NoSignal == [appointments |-> {}, apiError |-> FALSE]

\* line 660: const errorResult = { appointments: [], apiError: true }
errorResult == [appointments |-> {}, apiError |-> TRUE]

\* lines 619-644: the appointments of the patient in the week before and the
\* week after the date
SearchResult ==
  [appointments |->
     AppointmentListing(CheckedPatient, referenceDate - AppointmentWindowDays,
                        referenceDate + AppointmentWindowDays),
   apiError |-> FALSE]

\* /api/appoints/search answers attempt number cursor.attempt: the list is
\* cached and returned; a failure that is retried waits first; any other
\* failure is cached and returned as errorResult
AppointmentsResponse ==
  /\ pc = "appointments"
  /\ \E status \in ResponseStatuses :
       IF status # 200 /\ isRetryable(status) /\ cursor.attempt < MAX_RETRIES
         THEN /\ cursor' = [cursor EXCEPT !.status = status]
              /\ pc' = "backoff"
              /\ UNCHANGED <<row, appointmentsCache, storedIn>>
         ELSE LET result == IF status = 200 THEN SearchResult ELSE errorResult
              IN /\ appointmentsCache' =
                      MapSet(appointmentsCache, CheckedPatient, result)
                 /\ storedIn' =
                      [storedIn EXCEPT
                         !.appointments = MapSet(@, CheckedPatient, batch)]
                 /\ AfterAppointments(result)
  /\ UNCHANGED <<groupsCache, groupMapping, loadedFrom, groupedTransactions,
                 insertedRows>>
  /\ UNCHANGED <<rowFrame, answers>>

\* the mutant of RetryAppointments: the attempt is not counted
RetryAppointments_Uncounted ==
  /\ pc = "backoff"
  /\ cursor' = [cursor EXCEPT !.status = 0]
  /\ pc' = "appointments"
  /\ UNCHANGED <<row, appointmentsCache, storedIn>>
  /\ UNCHANGED <<groupsCache, groupMapping, loadedFrom, groupedTransactions,
                 insertedRows>>
  /\ UNCHANGED <<rowFrame, answers>>

\* lines 652-657: the wait of 500 ms * attempt is over, the next attempt is
\* requested
RetryAppointments ==
  /\ pc = "backoff"
  /\ cursor' = [cursor EXCEPT !.attempt = @ + 1, !.status = 0]
  /\ pc' = "appointments"
  /\ UNCHANGED <<row, appointmentsCache, storedIn>>
  /\ UNCHANGED <<groupsCache, groupMapping, loadedFrom, groupedTransactions,
                 insertedRows>>
  /\ UNCHANGED <<rowFrame, answers>>

\* the rows of the batch are written and the locals of the batch are gone; the
\* driver goes to its next period
RowsDone ==
  /\ pc = "rows"
  /\ cursor.g > Len(groupedTransactions)
  /\ pc' = "idle"
  /\ cursor' = NoCursor
  /\ transactions' = << >>
  /\ loopIndex' = 0
  /\ enrichedTransactions' = << >>
  /\ groupedTransactions' = << >>
  /\ insertedRows' = << >>
  /\ UNCHANGED <<groupsCache, groupMapping, loadedFrom, appointmentsCache, storedIn,
                 row>>
  /\ UNCHANGED <<batch, startDate, endDate, tasks, usedProposalIds, consumedBefore,
                 proposalsCache, proceduresCache, lastCall, memoCall, otherBetween,
                 answers, splitVars, matchVars, envVars, payVars>>

-----------------------------------------------------------------------------
(* The batch process *)

BatchIdle ==
  /\ pc = "idle"
  /\ faults = {503}
  /\ batch = 0
  /\ startDate = 0
  /\ endDate = 0
  /\ transactions = << >>
  /\ loopIndex = 0
  /\ enrichedTransactions = << >>
  /\ tasks = << >>
  /\ usedProposalIds = {}
  /\ consumedBefore = {}
  /\ proposalsCache = << >>
  /\ proceduresCache = << >>
  /\ appointmentsCache = << >>
  /\ storedIn = [proposals |-> << >>, appointments |-> << >>]
  /\ groupedTransactions = << >>
  /\ cursor = NoCursor
  /\ row = EmptyRow
  /\ insertedRows = << >>
  /\ answers = << >>

\* the rows of one report the enrichment is followed on
MaxRows == 2

\* the report rows the enrichment is followed on: invoices whose proposal is
\* 30 and 31 days away on either side, names of no, one, two and three
\* procedures, invoices with and without items, patients with and without
\* proposals
EnrichMovs ==
  { Mov(1, 40, 58, 305, Name_Tirzepatida, 10),
    Mov(1, 40, 58, 305, Name_Tirzepatida, 11),
    Mov(1, 40, 16, 200, Name_Consulta, 12),
    Mov(1, 40, 16, 200, Name_ConsultaNutri, 13),
    Mov(1, 40, 16, 200, Name_ConsultaNutri, 0),
    Mov(2, 50, 104, 500, Name_ImplanteSoroterapia, 7),
    Mov(2, 50, 104, 500, Name_ImplanteSoroterapia, 15),
    Mov(3, 40, 104, 300, Name_ImplanteSoroterapiaConsulta, 14),
    Mov(3, 40, 0, 300, Name_ImplanteSoroterapiaConsulta, 0),
    Mov(0, 40, 16, 200, << >>, 0) }

\* fetchDetailedTransactions('40', '50') of the first batch of a process, the
\* report answered and usedProposalIds cleared
EnrichInit ==
  /\ pc = "loop"
  /\ batch = 1
  /\ faults = {503}
  /\ startDate = 40
  /\ endDate = 50
  /\ transactions \in UNION {[1..n -> EnrichMovs] : n \in 1..MaxRows}
  /\ loopIndex = 0
  /\ enrichedTransactions = << >>
  /\ tasks = << >>
  /\ usedProposalIds = {}
  /\ consumedBefore = {}
  /\ proposalsCache = << >>
  /\ proceduresCache = << >>
  /\ appointmentsCache = << >>
  /\ storedIn = [proposals |-> << >>, appointments |-> << >>]
  /\ groupedTransactions = << >>
  /\ cursor = NoCursor
  /\ row = EmptyRow
  /\ insertedRows = << >>
  /\ answers = << >>

MaxFaultRows == 2

\* the report rows the failures are followed on: a row without Data whose
\* invoice has a proposal date, a name of two procedures with an invoice, a
\* consultation
FaultMovs ==
  { Mov(1, 0, 58, 305, Name_Tirzepatida, 10),
    Mov(2, 50, 104, 500, Name_ImplanteSoroterapia, 7),
    Mov(1, 50, 16, 200, Name_Consulta, 0) }

\* fetchDetailedTransactions('50', '50') of a process whose requests fail with
\* any of the statuses, the report answered and usedProposalIds cleared
FaultsInit ==
  /\ pc = "loop"
  /\ batch = 1
  /\ faults = FailureStatuses
  /\ startDate = 50
  /\ endDate = 50
  /\ transactions \in UNION {[1..n -> FaultMovs] : n \in 1..MaxFaultRows}
  /\ loopIndex = 0
  /\ enrichedTransactions = << >>
  /\ tasks = << >>
  /\ usedProposalIds = {}
  /\ consumedBefore = {}
  /\ proposalsCache = << >>
  /\ proceduresCache = << >>
  /\ appointmentsCache = << >>
  /\ storedIn = [proposals |-> << >>, appointments |-> << >>]
  /\ groupedTransactions = << >>
  /\ cursor = NoCursor
  /\ row = EmptyRow
  /\ insertedRows = << >>
  /\ answers = << >>

\* the enriched transactions the rows are followed on: consultations from the
\* report, a proposal with a consultation that has a discount, a name shared
\* out over two items, a payment without items
RowEnrichments ==
  { Enriched(Mov(1, 50, 16, 200, Name_Consulta, 8), FALSE, "report-single",
             SingleDetailedItems(Mov(1, 50, 16, 200, Name_Consulta, 8)), 0),
    Enriched(Mov(1, 50, 16, 310, Name_Consulta, 0), FALSE, "proposal",
             ProposalDetailedItems(MatchPool[4]), MatchPool[4].proposal_id),
    Enriched(Mov(2, 40, 16, 200, Name_ConsultaNutri, 0), FALSE, "report-distributed",
             DistributedDetailedItems(Mov(2, 40, 16, 200, Name_ConsultaNutri, 0),
                                      reportNames(Name_ConsultaNutri)), 0),
    Enriched(Mov(2, 50, 104, 100, Name_ConsultaRecompra, 9), TRUE, "payment-only",
             << >>, 0),
    Enriched(Mov(1, 40, 58, 305, Name_Tirzepatida, 0), FALSE, "report-single",
             SingleDetailedItems(Mov(1, 40, 58, 305, Name_Tirzepatida, 0)), 0) }

\* the ids of the proposals the enrichments of the list were built from
ProposalsOf(enrichedList) ==
  {enrichedList[j].fromProposal : j \in DOMAIN enrichedList} \ {0}

\* fetchDetailedTransactions(startDate, '50') of the first batch of a process
\* has returned its list
RowsInit ==
  /\ pc = "mapping"
  /\ batch = 1
  /\ faults = FailureStatuses
  /\ startDate \in Range(DateList)
  /\ endDate = 50
  /\ enrichedTransactions \in UNION {[1..n -> RowEnrichments] : n \in 1..MaxRows}
  /\ \A j \in DOMAIN enrichedTransactions :
       startDate <= enrichedTransactions[j].mov.Data
  /\ transactions = [j \in DOMAIN enrichedTransactions |-> enrichedTransactions[j].mov]
  /\ loopIndex = Len(transactions)
  /\ tasks = << >>
  /\ usedProposalIds = ProposalsOf(enrichedTransactions)
  /\ consumedBefore = {}
  /\ proposalsCache = << >>
  /\ proceduresCache = << >>
  /\ appointmentsCache = << >>
  /\ storedIn = [proposals |-> << >>, appointments |-> << >>]
  /\ groupedTransactions = << >>
  /\ cursor = NoCursor
  /\ row = EmptyRow
  /\ insertedRows = << >>
  /\ answers = << >>

MaxGroupRows == 3

\* updateSpreadsheetCustom(workbook, sheet, transactions, startDate) called
\* with a list of up to MaxGroupRows enriched transactions
GroupInit ==
  /\ pc = "mapping"
  /\ batch = 1
  /\ faults = FailureStatuses
  /\ startDate = 40
  /\ endDate = 50
  /\ enrichedTransactions \in UNION {[1..n -> RowEnrichments] : n \in 1..MaxGroupRows}
  /\ transactions = [j \in DOMAIN enrichedTransactions |-> enrichedTransactions[j].mov]
  /\ loopIndex = Len(transactions)
  /\ tasks = << >>
  /\ usedProposalIds = ProposalsOf(enrichedTransactions)
  /\ consumedBefore = {}
  /\ proposalsCache = << >>
  /\ proceduresCache = << >>
  /\ appointmentsCache = << >>
  /\ storedIn = [proposals |-> << >>, appointments |-> << >>]
  /\ groupedTransactions = << >>
  /\ cursor = NoCursor
  /\ row = EmptyRow
  /\ insertedRows = << >>
  /\ answers = << >>

MaxLiveRows == 1

\* fetchDetailedTransactions of one day with a report of up to MaxLiveRows
\* transactions, the report answered; a request that fails does so with a
\* status that is retried (503) or one that is not (404)
TerminateInit ==
  /\ pc = "loop"
  /\ batch = 1
  /\ faults = {404, 503}
  /\ startDate = 50
  /\ endDate = 50
  /\ transactions \in UNION {[1..n -> FaultMovs] : n \in 1..MaxLiveRows}
  /\ loopIndex = 0
  /\ enrichedTransactions = << >>
  /\ tasks = << >>
  /\ usedProposalIds = {}
  /\ consumedBefore = {}
  /\ proposalsCache = << >>
  /\ proceduresCache = << >>
  /\ appointmentsCache = << >>
  /\ storedIn = [proposals |-> << >>, appointments |-> << >>]
  /\ groupedTransactions = << >>
  /\ cursor = NoCursor
  /\ row = EmptyRow
  /\ insertedRows = << >>
  /\ answers = << >>

-----------------------------------------------------------------------------
(* excel.js: identifyPaymentColumn and the payments of a row; the history  *)
(* module: identifyPaymentColumnName and the entry of a transaction        *)

\* const PAYMENT_MAPPING, by FormaPagamentoID
PAYMENT_MAPPING ==
  (1 :> COLUMNS.DINHEIRO) @@ (2 :> COLUMNS.CHEQUE) @@ (3 :> COLUMNS.PIX)
  @@ (4 :> COLUMNS.BOLETO) @@ (5 :> COLUMNS.PIX) @@ (6 :> COLUMNS.PIX)
  @@ (7 :> COLUMNS.PIX) @@ (8 :> COLUMNS.INFINITE) @@ (9 :> COLUMNS.INFINITE)
  @@ (10 :> COLUMNS.INFINITE) @@ (15 :> COLUMNS.PIX)

\* COLUMNS.PGTO_OUTROS: COLUMNS has no such key
PGTO_OUTROS == "undefined"

\* const PAYMENT_COLUMNS of the history module
PAYMENT_COLUMNS ==
  [DINHEIRO |-> "Q", SICOOB |-> "R", SAFRA |-> "S", PIX_SAFRA |-> "T",
   INFINITE |-> "U", PIX |-> "V", CHEQUE |-> "W", BOLETO |-> "X"]

\* (AccountName || '').toLowerCase(); an absent AccountName is the empty text
AccountOf(transaction) == toLowerCase(transaction.AccountName)

Text_caixa == <<"c", "a", "i", "x", "a">>

Text_sicoob == <<"s", "i", "c", "o", "o", "b">>

Text_safra_pay == <<"s", "a", "f", "r", "a", " ", "p", "a", "y">>

Text_safra == <<"s", "a", "f", "r", "a">>

Text_infinte == <<"i", "n", "f", "i", "n", "t", "e">>

Text_infinite == <<"i", "n", "f", "i", "n", "i", "t", "e">>

Text_cora == <<"c", "o", "r", "a">>

\* excel.js: identifyPaymentColumn(transaction)
identifyPaymentColumn(transaction) ==
  LET FormaPagamentoID == transaction.FormaPagamentoID
      account == AccountOf(transaction)
  IN IF includes(account, Text_caixa) \/ FormaPagamentoID = 1
       THEN COLUMNS.DINHEIRO
     ELSE IF includes(account, Text_sicoob) THEN COLUMNS.SICOOB
     ELSE IF includes(account, Text_safra_pay) THEN COLUMNS.SAFRA
     ELSE IF includes(account, Text_safra)
       THEN IF FormaPagamentoID = 4 THEN COLUMNS.BOLETO ELSE COLUMNS.PIX_SAFRA
     ELSE IF includes(account, Text_infinte) \/ includes(account, Text_infinite)
       THEN COLUMNS.INFINITE
     ELSE IF includes(account, Text_cora) THEN COLUMNS.PIX
     ELSE IF FormaPagamentoID \in DOMAIN PAYMENT_MAPPING
       THEN PAYMENT_MAPPING[FormaPagamentoID]
     ELSE PGTO_OUTROS

\* `${col} (${name})`: the two parts of the text
ColumnText(col, name) == [col |-> col, name |-> name]

\* the history module: identifyPaymentColumnName(mov)
identifyPaymentColumnName(mov) ==
  LET FormaPagamentoID == mov.FormaPagamentoID
      account == AccountOf(mov)
  IN IF includes(account, Text_caixa) \/ FormaPagamentoID = 1
       THEN ColumnText(PAYMENT_COLUMNS.DINHEIRO, "DINHEIRO")
     ELSE IF includes(account, Text_sicoob)
       THEN ColumnText(PAYMENT_COLUMNS.SICOOB, "SICOOB")
     ELSE IF includes(account, Text_safra_pay)
       THEN ColumnText(PAYMENT_COLUMNS.SAFRA, "SAFRA")
     ELSE IF includes(account, Text_safra) /\ FormaPagamentoID = 4
       THEN ColumnText(PAYMENT_COLUMNS.BOLETO, "BOLETO")
     ELSE IF includes(account, Text_safra)
       THEN ColumnText(PAYMENT_COLUMNS.PIX_SAFRA, "PIX_SAFRA")
     ELSE IF includes(account, Text_infinte) \/ includes(account, Text_infinite)
       THEN ColumnText(PAYMENT_COLUMNS.INFINITE, "INFINITE")
     ELSE IF includes(account, Text_cora)
       THEN ColumnText(PAYMENT_COLUMNS.PIX, "PIX")
     ELSE ColumnText(PAYMENT_COLUMNS.PIX, "PIX")

\* the account names of the transactions (empty: the report gives none)
AccountNames ==
  { << >>,
    <<"C", "a", "i", "x", "a">>,
    <<"S", "I", "C", "O", "O", "B">>,
    <<"S", "a", "f", "r", "a", " ", "P", "a", "y">>,
    <<"B", "a", "n", "c", "o", " ", "S", "a", "f", "r", "a">>,
    <<"I", "n", "f", "i", "n", "t", "e", "P", "a", "y">>,
    <<"B", "a", "n", "c", "o", " ", "C", "o", "r", "a">>,
    <<"B", "r", "a", "d", "e", "s", "c", "o">> }

\* the FormaPagamentoID of the transactions: cash, check, bank slip, credit
\* card, an id PAYMENT_MAPPING does not know, PIX
PaymentIds == {1, 2, 4, 8, 11, 15}

NoPayment == [AccountName |-> << >>, FormaPagamentoID |-> 0, Value |-> 0]

NoColumn == ColumnText("", "")

\* no transaction is paid
PayIdle ==
  /\ paymentMov = NoPayment
  /\ paymentValues = << >>
  /\ colunaPagamento = NoColumn

\* one transaction of a group, of any account and payment method, before
\* buildRow comes to its payment
PaymentInit ==
  /\ paymentMov \in [AccountName : AccountNames, FormaPagamentoID : PaymentIds,
                     Value : {250}]
  /\ paymentValues = << >>
  /\ colunaPagamento = NoColumn

\* buildRow, lines 835-837: the value of the transaction is added to its
\* payment column of the row
AddPayment ==
  /\ paymentMov # NoPayment
  /\ paymentValues = << >>
  /\ paymentValues' =
       AddValue(paymentValues, identifyPaymentColumn(paymentMov), paymentMov.Value)
  /\ UNCHANGED <<paymentMov, colunaPagamento>>
  /\ UNCHANGED <<classifyVars, splitVars, batchVars, matchVars, faults>>

\* buildPatientEntry of the history module: the entry of the transaction of
\* an inserted row gets its colunaPagamento
BuildPatientEntry ==
  /\ paymentValues # << >>
  /\ colunaPagamento = NoColumn
  /\ colunaPagamento' = identifyPaymentColumnName(paymentMov)
  /\ UNCHANGED <<paymentMov, paymentValues>>
  /\ UNCHANGED <<classifyVars, splitVars, batchVars, matchVars, faults>>

-----------------------------------------------------------------------------
(* Specifications *)

vars == <<classifyVars, splitVars, batchVars, matchVars, envVars, payVars>>

\* the split has no name to work on
SplitIdle ==
  /\ splitName = << >>
  /\ splitPieces = << >>
  /\ splitTokens = << >>
  /\ splitDone = TRUE

InitClassify == ClassifyInit /\ SplitIdle /\ BatchIdle /\ MatchIdle /\ PayIdle

NextClassify == LoadGroupMapping \/ Classify

\* the classifier and the loads of its mapping
SpecClassify == InitClassify /\ [][NextClassify]_vars

NextClassifyTwice == LoadGroupMapping \/ ClassifyAgain \/ Remember

\* the classifier called again and again, an earlier call kept for comparison
SpecClassifyTwice == InitClassify /\ [][NextClassifyTwice]_vars

InitSplit == SplitInit /\ ClassifyInit /\ BatchIdle /\ MatchIdle /\ PayIdle

NextSplit == SplitName

\* the split applied to each name of SplitNames
SpecSplit == InitSplit /\ [][NextSplit]_vars

Init == BatchIdle /\ ClassifyInit /\ SplitIdle /\ MatchIdle /\ PayIdle

Next ==
  \/ StartBatch
  \/ ReportResponse
  \/ EnrichBegin
  \/ DateResponse
  \/ FetchPatientProposals
  \/ ProposalsResponse
  \/ MatchItemsResponse
  \/ ItemsResponse
  \/ ProcedureResponse
  \/ BatchReturn
  \/ UpdateSpreadsheet
  \/ BuildRowStep
  \/ FetchPatientAppointments
  \/ AppointmentsResponse
  \/ RetryAppointments
  \/ RowsDone

\* the batches of one process of the driver
Spec == Init /\ [][Next]_vars

InitMatch == MatchInit /\ BatchIdle /\ ClassifyInit /\ SplitIdle /\ PayIdle

NextMatch == FindMatchingProposal

\* the calls of the matcher
SpecMatch == InitMatch /\ [][NextMatch]_vars

InitEnrich == EnrichInit /\ ClassifyInit /\ SplitIdle /\ MatchIdle /\ PayIdle

NextEnrich ==
  \/ EnrichBegin
  \/ DateResponse
  \/ FetchPatientProposals
  \/ ProposalsResponse
  \/ MatchItemsResponse
  \/ ItemsResponse
  \/ ProcedureResponse

\* the enrichment loop of one batch
SpecEnrich == InitEnrich /\ [][NextEnrich]_vars

InitRows == RowsInit /\ ClassifyInit /\ SplitIdle /\ MatchIdle /\ PayIdle

NextRows ==
  \/ UpdateSpreadsheet
  \/ BuildRowStep
  \/ FetchPatientAppointments
  \/ AppointmentsResponse
  \/ RetryAppointments
  \/ RowsDone

\* the rows of one batch
SpecRows == InitRows /\ [][NextRows]_vars

InitFaults == FaultsInit /\ ClassifyInit /\ SplitIdle /\ MatchIdle /\ PayIdle

NextFaults ==
  \/ EnrichBegin
  \/ DateResponse
  \/ FetchPatientProposals
  \/ ProposalsResponse
  \/ MatchItemsResponse
  \/ ItemsResponse
  \/ ProcedureResponse
  \/ BatchReturn
  \/ UpdateSpreadsheet
  \/ BuildRowStep
  \/ FetchPatientAppointments
  \/ AppointmentsResponse
  \/ RetryAppointments
  \/ RowsDone

\* one batch of one day whose requests fail, from the report to the rows
SpecFaults == InitFaults /\ [][NextFaults]_vars

InitGroup == GroupInit /\ ClassifyInit /\ SplitIdle /\ MatchIdle /\ PayIdle

NextGroup == UpdateSpreadsheet

\* the grouping of one list of enriched transactions
SpecGroup == InitGroup /\ [][NextGroup]_vars

\* the steps that are the answer of the upstream to a request
RequestAnswers ==
  \/ DateResponse
  \/ ProposalsResponse
  \/ MatchItemsResponse
  \/ ItemsResponse
  \/ ProcedureResponse
  \/ UpdateSpreadsheet
  \/ AppointmentsResponse

\* the steps the process takes by itself: continuations that are ready to
\* run and the timer of the backoff
ProgramSteps ==
  \/ EnrichBegin
  \/ FetchPatientProposals
  \/ BatchReturn
  \/ BuildRowStep
  \/ FetchPatientAppointments
  \/ RetryAppointments
  \/ RowsDone

\* one batch whose requests are all answered in the end, by a result or by a
\* failure, and whose ready continuations are run by the event loop
InitTerminate == TerminateInit /\ ClassifyInit /\ SplitIdle /\ MatchIdle /\ PayIdle

SpecTerminate ==
  InitTerminate /\ [][NextFaults]_vars /\ WF_vars(RequestAnswers) /\ WF_vars(ProgramSteps)

InitPayment == PaymentInit /\ ClassifyInit /\ SplitIdle /\ BatchIdle /\ MatchIdle

NextPayment == AddPayment \/ BuildPatientEntry

\* the payment of one transaction, in the row and in the history
SpecPayment == InitPayment /\ [][NextPayment]_vars

-----------------------------------------------------------------------------
(* Claims on the classifier *)

\* entry k of the pattern table occurs in the name of the latest call, the
\* case of the letters aside
LastNameHas(k) ==
  LET pat == PROCEDURE_MAPPING[k].pattern
      name == lastCall.name
  IN \E off \in 0..(Len(name) - Len(pat)) :
       \A c \in 1..Len(pat) :
         \/ name[off + c] = pat[c]
         \/ \E u \in DOMAIN UpperChars :
              name[off + c] = UpperChars[u] /\ pat[c] = LowerChars[u]

\* the latest call had an id that the loaded CategoryMap contains
LastById ==
  /\ lastCall.made
  /\ lastCall.id # 0
  /\ lastCall.mapSet
  /\ lastCall.id \in DOMAIN groupMapping.map

\* C6: a call whose id is given and is in the CategoryMap returns the category
\* mapped to that id with provenance id, whatever its name.
C6_IdTakesPriority ==
  LastById =>
    /\ lastCall.result.classificadoPor = "id"
    /\ \E key \in DOMAIN COLUMNS :
         /\ groupMapping.map[lastCall.id] = key
         /\ lastCall.result.column = COLUMNS[key]

\* C6 witness: id 58 is mapped to TIRZEPATIDA (column J); the name alone would
\* have gone to the nutrition column
C6_Witness ==
  /\ LastById
  /\ lastCall.id = 58
  /\ LastNameHas(1)
  /\ lastCall.result = [column |-> "J", classificadoPor |-> "id"]

\* C7: once the CategoryMap is loaded from a listing that contains id 20 (the
\* discard override), a call with id 20 returns category null with provenance
\* id, whatever the name.
C7_DiscardOverrideById ==
  ( /\ lastCall.made
    /\ lastCall.mapSet
    /\ lastCall.id = 20
    /\ loadedFrom.ok
    /\ 20 \in ListedIds(loadedFrom.groups) )
  => lastCall.result = [column |-> NULL, classificadoPor |-> "id"]

\* C8: when the id is absent or not in the CategoryMap, the call returns the
\* category of the first entry of the pattern table, in table order, that occurs
\* in the lowercased name, with provenance nome; when no entry occurs it
\* returns EXTRA with provenance fallback.
C8_FirstPatternWins ==
  (lastCall.made /\ ~LastById) =>
    IF \E k \in DOMAIN PROCEDURE_MAPPING : LastNameHas(k)
      THEN \E k \in DOMAIN PROCEDURE_MAPPING :
             /\ LastNameHas(k)
             /\ \A j \in 1..(k - 1) : ~LastNameHas(j)
             /\ lastCall.result =
                  [column |-> PROCEDURE_MAPPING[k].column, classificadoPor |-> "nome"]
      ELSE lastCall.result = [column |-> "O", classificadoPor |-> "fallback"]

\* C8 witness: "Consulta Nutricional" holds entry 1 (nutricional) and the later
\* entries 7 (consulta) and 22 (nutri); it goes to the nutrition column
C8_Witness ==
  /\ lastCall.made /\ ~LastById
  /\ LastNameHas(1) /\ LastNameHas(7) /\ LastNameHas(22)
  /\ lastCall.result = [column |-> "N", classificadoPor |-> "nome"]

-----------------------------------------------------------------------------
(* Claims on the split *)

\* the pieces joined back with commas
RECURSIVE JoinPieces(_)
JoinPieces(pieces) ==
  IF Len(pieces) = 0 THEN << >>
  ELSE IF Len(pieces) = 1 THEN pieces[1]
  ELSE pieces[1] \o <<",">> \o JoinPieces(Tail(pieces))

\* the position in the name of the comma that ends piece i
RECURSIVE CutPosition(_, _)
CutPosition(pieces, i) ==
  IF i = 0 THEN 0 ELSE CutPosition(pieces, i - 1) + Len(pieces[i]) + 1

\* position p of s holds a comma followed, after optional spaces, by a letter
\* or by one or more digits and the ordinal sign
SeparatorAt(s, p) ==
  /\ s[p] = ","
  /\ \E j \in (p + 1)..Len(s) :
       /\ \A q \in (p + 1)..(j - 1) : s[q] = " "
       /\ \/ IsRegexLetter(s[j])
          \/ \E k \in (j + 1)..Len(s) :
               /\ \A q \in j..(k - 1) : IsDigit(s[q])
               /\ s[k] = "ordm"

\* position p of s holds a comma followed by digits that no ordinal sign ends
DecimalCommaAt(s, p) ==
  /\ s[p] = ","
  /\ p < Len(s)
  /\ IsDigit(s[p + 1])
  /\ LET k == SkipDigits(s, p + 1) IN k > Len(s) \/ s[k] # "ordm"

\* the positions of the name where the split cut
Cuts == {CutPosition(splitPieces, i) : i \in 1..(Len(splitPieces) - 1)}

\* C10: the name is cut exactly at the commas followed, after optional spaces,
\* by a letter or by digits ending in the ordinal sign, never at a decimal
\* comma; the tokens are the trimmed non-empty pieces; the four documented
\* names give 2, 2, 1 and 1 tokens.
C10_SplitRule ==
  (splitDone /\ Len(splitName) > 0) =>
    /\ JoinPieces(splitPieces) = splitName
    /\ \A p \in 1..Len(splitName) : (p \in Cuts) <=> SeparatorAt(splitName, p)
    /\ \A p \in 1..Len(splitName) : DecimalCommaAt(splitName, p) => p \notin Cuts
    /\ Len(splitTokens) <= Len(splitPieces)
    /\ \A t \in DOMAIN splitTokens :
         /\ Len(splitTokens[t]) > 0
         /\ splitTokens[t][1] # " "
         /\ splitTokens[t][Len(splitTokens[t])] # " "
    /\ Cardinality({i \in DOMAIN splitPieces :
                      \E q \in DOMAIN splitPieces[i] : splitPieces[i][q] # " "})
         = Len(splitTokens)
    /\ (splitName = Name_ImplanteSoroterapia) =>
         splitTokens = << <<"I", "m", "p", "l", "a", "n", "t", "e">>,
                          <<"S", "o", "r", "o", "t", "e", "r", "a", "p", "i", "a">> >>
    /\ (splitName = Name_Im3Consulta) =>
         splitTokens = << <<"I", "m">>,
                          <<"3", "ordm", " ", "C", "o", "n", "s", "u", "l", "t", "a">> >>
    /\ (splitName = Name_Estradiol) => splitTokens = <<Name_Estradiol>>
    /\ (splitName = Name_Tirzepatida) => splitTokens = <<Name_Tirzepatida>>

\* C10 witness: a name with a separating comma and a decimal comma, split once
C10_Witness ==
  /\ splitDone
  /\ splitName = <<"m", ",", "m", ",", "3">>
  /\ splitTokens = << <<"m">>, <<"m", ",", "3">> >>

-----------------------------------------------------------------------------
(* Claims on the batch process *)

\* the enriched transactions of the batch that were built from a proposal
FromProposal ==
  {n \in DOMAIN enrichedTransactions :
     enrichedTransactions[n].fonteItens = "proposal"}

\* C1: within one batch, after any sequence of enrichments, no two enriched
\* transactions with source proposal were built from the same proposal id.
C1_NoProposalUsedTwice ==
  \A a \in FromProposal, b \in FromProposal :
    a # b =>
      enrichedTransactions[a].fromProposal # enrichedTransactions[b].fromProposal

\* C1 witness: two equal report rows of one patient, each matched by procedure
\* id, the later one built from another proposal than the earlier one although
\* the proposal of the earlier one holds its procedure too
C1_Witness ==
  \E a \in FromProposal, b \in FromProposal :
    /\ a < b
    /\ enrichedTransactions[a].mov = enrichedTransactions[b].mov
    /\ enrichedTransactions[a].fromProposal = 1
    /\ enrichedTransactions[b].fromProposal = 2

\* C2: the enrichments of a batch run strictly one at a time: a call of
\* enrichTransactionWithItems that has not returned is the latest one the loop
\* made, and every call made before it has returned its enriched transaction.
C2_OneAtATime ==
  \A t \in DOMAIN tasks :
    /\ t = loopIndex
    /\ Len(enrichedTransactions) = t - 1

\* C2 witness: the second call of a batch waits for a network response after
\* the first call, which waited for responses itself, has returned
C2_Witness ==
  /\ 2 \in DOMAIN tasks
  /\ tasks[2].at \in {"date", "proposalsGet", "matchItems", "items", "procedure"}
  /\ Len(enrichedTransactions) = 1
  /\ enrichedTransactions[1].fonteItens = "proposal"
  /\ enrichedTransactions[1].mov.NumeroInvoice # 0

\* C3: in the loop of a batch the UsedProposals set holds the proposal ids
\* consumed by the enrichments of this batch and no other: it is empty before
\* the first transaction is enriched, whatever earlier batches consumed.
C3_UsedProposalsPerBatch ==
  pc = "loop" =>
    usedProposalIds =
      {enrichedTransactions[n].fromProposal : n \in FromProposal}

\* C3 witness: a later batch matches a proposal that an earlier batch of the
\* same process consumed
C3_Witness ==
  /\ batch >= 2
  /\ pc = "loop"
  /\ \E n \in FromProposal :
       enrichedTransactions[n].fromProposal \in consumedBefore

\* C4: an appointment check never gets an entry of the appointment cache that
\* was stored during an earlier batch of the same process (the cache being
\* cleared at the start of every batch).
C4_AppointmentsCacheBatchScoped ==
  (pc = "check" /\ CheckedPatient \in DOMAIN appointmentsCache)
    => storedIn.appointments[CheckedPatient] = batch

\* C5: a proposal list memoized for a (patient, date) key in one batch is never
\* served to a later batch of the same process (the cache being cleared at the
\* start of every batch).
C5_ProposalsCacheBatchScoped ==
  \A t \in DOMAIN tasks :
    (tasks[t].at = "proposals" /\ ProposalsKey(tasks[t].mov) \in DOMAIN proposalsCache)
      => storedIn.proposals[ProposalsKey(tasks[t].mov)] = batch

-----------------------------------------------------------------------------
(* Claims on the proposal matcher *)

\* the positions of the proposals of the call that hold a line item of the
\* procedure of its transaction
Eligible ==
  {j \in DOMAIN matching.proposals :
     \E k \in DOMAIN matching.proposals[j].procedimentos :
       matching.proposals[j].procedimentos[k].procedimento_id =
         matching.transaction.ProcedimentoID}

\* how far the total of the proposal at position j is from the value of the
\* transaction
Distance(j) == Abs(matching.proposals[j].value - matching.transaction.Value)

\* C11: for a transaction of one procedure the matcher looks only at the
\* available proposals that hold a line item of the transaction's procedure:
\* it returns null when there is none, the proposal when there is exactly
\* one, and otherwise one whose total is nearest to the transaction's value
C11_SingleProcedureMatch ==
  (matching.done /\ ~isMultiProcedure(matching.transaction)) =>
    /\ Eligible = {} => matching.result = NoProposal
    /\ Cardinality(Eligible) = 1 =>
         \A j \in Eligible : matching.result = matching.proposals[j]
    /\ Eligible # {} =>
         \E j \in Eligible :
           /\ matching.result = matching.proposals[j]
           /\ \A m \in Eligible : Distance(j) <= Distance(m)

\* C11: totals 320 and 300, in that order, against the value 305: the
\* proposal of total 300 has been returned
C11_Witness ==
  /\ matching.done
  /\ ~isMultiProcedure(matching.transaction)
  /\ matching.transaction.Value = 305
  /\ Len(matching.proposals) = 2
  /\ Eligible = {1, 2}
  /\ matching.proposals[1].value = 320
  /\ matching.proposals[2].value = 300
  /\ matching.result = matching.proposals[2]

\* the number of line items of the proposal at position j whose procedure is
\* one of the procedures of the invoice items
Overlap(j) ==
  Cardinality({k \in DOMAIN matching.proposals[j].procedimentos :
                 \E n \in DOMAIN matching.items :
                   matching.items[n].procedimento_id =
                     matching.proposals[j].procedimentos[k].procedimento_id})

\* C12: for a transaction of several procedures the matcher returns an
\* available proposal of the highest overlap with the procedures of the
\* invoice, and only when that overlap is at least 2; it returns null when
\* the highest overlap is below 2, when the transaction has no invoice id and
\* when the invoice has no line item
C12_MultiProcedureMatch ==
  (matching.done /\ isMultiProcedure(matching.transaction)) =>
    IF /\ matching.transaction.NumeroInvoice # 0
       /\ Len(matching.items) > 0
       /\ \E j \in DOMAIN matching.proposals : Overlap(j) >= 2
      THEN \E j \in DOMAIN matching.proposals :
             /\ matching.result = matching.proposals[j]
             /\ \A m \in DOMAIN matching.proposals : Overlap(j) >= Overlap(m)
      ELSE matching.result = NoProposal

\* C12: of two proposals with overlaps 2 and 3, in that order, the one with
\* overlap 3 has been returned
C12_Witness ==
  /\ matching.done
  /\ isMultiProcedure(matching.transaction)
  /\ Len(matching.proposals) = 2
  /\ Overlap(1) = 2
  /\ Overlap(2) = 3
  /\ matching.result = matching.proposals[2]

-----------------------------------------------------------------------------
(* Claims on the enrichment of a transaction *)

\* the enrichments of the batch that have returned
Returned == DOMAIN answers \cap (1..Len(enrichedTransactions))

\* the proposal date of the invoice of transaction t was resolved and lies
\* more than 30 days from the date of the transaction
FarProposal(t) ==
  /\ enrichedTransactions[t].mov.NumeroInvoice # 0
  /\ answers[t].proposalDate # 0
  /\ \/ enrichedTransactions[t].mov.Data - answers[t].proposalDate > 30
     \/ answers[t].proposalDate - enrichedTransactions[t].mov.Data > 30

\* the number of names the split gives each NomeProcedimento of the rows the
\* enrichment is followed on
NameCounts ==
  [name \in {mov.NomeProcedimento : mov \in EnrichMovs} |-> Len(reportNames(name))]

\* the number of names the report gives transaction t
NameCount(t) ==
  LET name == enrichedTransactions[t].mov.NomeProcedimento
  IN IF name \in DOMAIN NameCounts THEN NameCounts[name] ELSE Len(reportNames(name))

\* C13: an enrichment ends as payment-only (paymentOnly true, no item, source
\* payment-only) exactly when the proposal date of the invoice was resolved
\* and lies more than 30 days from the transaction date; with at most 30
\* days, no invoice id or no resolved date it goes on to the other sources
C13_PaymentOnlyRule ==
  \A t \in Returned :
    LET e == enrichedTransactions[t]
    IN IF FarProposal(t)
         THEN /\ e.paymentOnly
              /\ e.fonteItens = "payment-only"
              /\ e.detailedItems = << >>
         ELSE /\ ~e.paymentOnly
              /\ e.fonteItens \in
                   {"proposal", "report-single", "report-distributed", "invoice"}

\* C13: one transaction whose proposal is 31 days old has ended as
\* payment-only, and one whose proposal is 30 days old has not
C13_Witness ==
  \E t, u \in Returned :
    /\ enrichedTransactions[t].mov.Data - answers[t].proposalDate = 31
    /\ enrichedTransactions[t].paymentOnly
    /\ enrichedTransactions[u].mov.Data - answers[u].proposalDate = 30
    /\ ~enrichedTransactions[u].paymentOnly

\* the source the order of the five paths gives transaction t, from what its
\* enrichment was answered
SourceInOrder(t) ==
  IF FarProposal(t) THEN "payment-only"
  ELSE IF answers[t].matched # 0 THEN "proposal"
  ELSE IF NameCount(t) <= 1 THEN "report-single"
  ELSE IF answers[t].items = << >> THEN "report-distributed"
  ELSE "invoice"

\* C14: every enrichment that returns ends in one of the five sources, the
\* first in the order payment-only, proposal, report-single,
\* report-distributed, invoice that does not decline, a path that ended the
\* enrichment leaving the later ones unasked; paymentOnly is true exactly for
\* payment-only, and the items are empty exactly then
C14_OneSourceInOrder ==
  \A t \in Returned :
    LET e == enrichedTransactions[t]
    IN /\ e.fonteItens = SourceInOrder(t)
       /\ e.paymentOnly <=> e.fonteItens = "payment-only"
       /\ e.detailedItems = << >> <=> e.fonteItens = "payment-only"
       /\ e.fonteItens = "payment-only" => answers[t].matched = 0
       /\ e.fonteItens \in {"payment-only", "proposal", "report-single"} =>
            answers[t].items = << >> /\ answers[t].procedures = << >>

\* C14: an enrichment has reached the last source, the invoice, its proposal
\* date resolved and its patient known, after one that ended as payment-only
C14_Witness ==
  \E t, u \in Returned :
    /\ enrichedTransactions[t].fonteItens = "payment-only"
    /\ enrichedTransactions[u].fonteItens = "invoice"
    /\ answers[u].proposalDate # 0
    /\ enrichedTransactions[u].mov.PacienteID # 0

\* the proposal the upstream lists for the patient and day of transaction t
\* under the id the matcher returned
MatchedProposal(t) ==
  LET listing == ProposalListing(enrichedTransactions[t].mov.PacienteID,
                                 enrichedTransactions[t].mov.Data)
  IN listing[CHOOSE j \in DOMAIN listing :
               listing[j].proposal_id = answers[t].matched]

\* C15: when a proposal is matched the enrichment ends with source proposal
\* and one item per line of the proposal, in the order of the lines, with the
\* line's procedure and name, the unit value times the quantity (1 when the
\* quantity is absent), and the line's discount and surcharge
C15_ProposalItems ==
  \A t \in Returned :
    answers[t].matched # 0 =>
      LET e == enrichedTransactions[t]
          lines == MatchedProposal(t).procedimentos
      IN /\ e.fonteItens = "proposal"
         /\ Len(e.detailedItems) = Len(lines)
         /\ \A k \in DOMAIN lines :
              LET quantity == IF lines[k].quantidade = 0 THEN 1 ELSE lines[k].quantidade
              IN /\ e.detailedItems[k].procedimento_id = lines[k].procedimento_id
                 /\ e.detailedItems[k].nome = lines[k].nome
                 /\ e.detailedItems[k].valor = lines[k].valor * quantity
                 /\ e.detailedItems[k].quantidade = quantity
                 /\ e.detailedItems[k].desconto = lines[k].desconto
                 /\ e.detailedItems[k].acrescimo = lines[k].acrescimo

\* C15: two transactions of value 305 have been given the items of their
\* proposals: a line of quantity 2 and unit value 160 as an item of 320, a
\* line without quantity as an item of quantity 1
C15_Witness ==
  \E t, u \in Returned :
    /\ answers[t].matched # 0
    /\ MatchedProposal(t).procedimentos[1].quantidade = 0
    /\ enrichedTransactions[t].detailedItems[1].quantidade = 1
    /\ answers[u].matched # 0
    /\ MatchedProposal(u).procedimentos[1].quantidade = 2
    /\ enrichedTransactions[u].detailedItems[1].valor = 320
    /\ enrichedTransactions[u].mov.Value = 305

\* no proposal was matched for transaction t, which is not payment-only
Unmatched(t) ==
  /\ enrichedTransactions[t].fonteItens # "payment-only"
  /\ answers[t].matched = 0

\* C16: when no proposal was matched and the name gives at most one token
\* (an empty or missing name included) the enrichment ends with source
\* report-single and exactly one item, of the transaction's own value and
\* procedure id
C16_ReportSingle ==
  \A t \in Returned :
    (Unmatched(t) /\ NameCount(t) <= 1) =>
      LET e == enrichedTransactions[t]
      IN /\ e.fonteItens = "report-single"
         /\ Len(e.detailedItems) = 1
         /\ e.detailedItems[1].valor = e.mov.Value
         /\ e.detailedItems[1].procedimento_id = e.mov.ProcedimentoID

\* C16: a transaction without a name and one with a name of one token have
\* both ended as report-single
C16_Witness ==
  \E t, u \in Returned :
    /\ Unmatched(t) /\ NameCount(t) = 0
    /\ enrichedTransactions[t].fonteItens = "report-single"
    /\ Unmatched(u) /\ NameCount(u) = 1
    /\ enrichedTransactions[u].fonteItens = "report-single"
    /\ enrichedTransactions[u].detailedItems[1].valor = 200

\* the sum of the values of the items from item k on
RECURSIVE SumOfValues(_, _)
SumOfValues(items, k) ==
  IF k > Len(items) THEN 0 ELSE items[k].valor + SumOfValues(items, k + 1)

\* C17: when no proposal was matched, the name gives N > 1 tokens and the
\* transaction has no invoice id or its invoice no line item, the enrichment
\* ends with source report-distributed and N items, one per token in order,
\* without procedure id, each of the transaction value divided by N, the
\* values adding up to the transaction value
C17_ReportDistributed ==
  \A t \in Returned :
    (/\ Unmatched(t)
     /\ NameCount(t) > 1
     /\ enrichedTransactions[t].mov.NumeroInvoice = 0 \/ answers[t].items = << >>) =>
      LET e == enrichedTransactions[t]
          names == reportNames(e.mov.NomeProcedimento)
      IN /\ e.fonteItens = "report-distributed"
         /\ Len(e.detailedItems) = Len(names)
         /\ \A k \in DOMAIN names :
              /\ e.detailedItems[k].nome = names[k]
              /\ e.detailedItems[k].procedimento_id = 0
              /\ e.detailedItems[k].valor * Len(names) = e.mov.Value
         /\ SumOfValues(e.detailedItems, 1) = e.mov.Value

\* C17: "Consulta,Nutri" of value 200 without invoice id has given two items
\* of 100, and a name of three tokens whose invoice has no item has given
\* three items
C17_Witness ==
  \E t, u \in Returned :
    /\ enrichedTransactions[t].mov.NomeProcedimento = Name_ConsultaNutri
    /\ enrichedTransactions[t].mov.NumeroInvoice = 0
    /\ enrichedTransactions[t].mov.Value = 200
    /\ Len(enrichedTransactions[t].detailedItems) = 2
    /\ \A k \in 1..2 : enrichedTransactions[t].detailedItems[k].valor = 100
    /\ enrichedTransactions[u].mov.NumeroInvoice # 0
    /\ enrichedTransactions[u].fonteItens = "report-distributed"
    /\ Len(enrichedTransactions[u].detailedItems) = 3

\* C18: when no proposal was matched, the name gives more than one token and
\* the invoice has line items, the enrichment ends with source invoice and
\* one item per line of the invoice, whatever the number of tokens, with the
\* line's procedure id, its value and discount divided by 100, and the name
\* the cached procedure lookup returned, or the placeholder when it returned
\* none
C18_InvoiceItems ==
  \A t \in Returned :
    (Unmatched(t) /\ NameCount(t) > 1 /\ answers[t].items # << >>) =>
      LET e == enrichedTransactions[t]
          lines == answers[t].items
      IN /\ e.fonteItens = "invoice"
         /\ Len(e.detailedItems) = Len(lines)
         /\ Len(answers[t].procedures) = Len(lines)
         /\ \A k \in DOMAIN lines :
              /\ e.detailedItems[k].procedimento_id = lines[k].procedimento_id
              /\ e.detailedItems[k].valor * 100 = lines[k].valor
              /\ e.detailedItems[k].desconto * 100 = lines[k].desconto
              /\ IF answers[t].procedures[k] # << >>
                   THEN /\ e.detailedItems[k].nome = answers[t].procedures[k]
                        /\ lines[k].procedimento_id \in DOMAIN proceduresCache
                        /\ proceduresCache[lines[k].procedimento_id] =
                             answers[t].procedures[k]
                   ELSE e.detailedItems[k].nome =
                          Name_ProcedimentoNo(lines[k].procedimento_id)

\* C18: a name of three tokens has been given the two lines of its invoice,
\* 25000 and 5000 cents with 500 cents of discount, as items of 250 and 50
\* with a discount of 5, the first under the name the lookup returned and the
\* second, whose lookup failed, under the placeholder
C18_Witness ==
  \E t \in Returned :
    /\ NameCount(t) = 3
    /\ enrichedTransactions[t].fonteItens = "invoice"
    /\ Len(enrichedTransactions[t].detailedItems) = 2
    /\ enrichedTransactions[t].detailedItems[1].valor = 250
    /\ enrichedTransactions[t].detailedItems[1].nome = Name_Implante
    /\ enrichedTransactions[t].detailedItems[2].valor = 50
    /\ enrichedTransactions[t].detailedItems[2].desconto = 5
    /\ enrichedTransactions[t].detailedItems[2].nome = Name_ProcedimentoNo(16)

-----------------------------------------------------------------------------
(* Claims on the appointment check of an evaluation item *)

\* C19: the appointment check of an evaluation item is made for the date of
\* the item's own transaction: in a batch over several dates the date given
\* to the check is the date of the group of the item, not the reference date
\* of the batch
C19_CheckedOnTransactionDate ==
  pc \in {"check", "appointments"} => referenceDate = CurrentGroup.date

\* the step is the return of the appointment check of the current item with
\* apiError
ApiErrorReported ==
  /\ pc \in {"check", "appointments"}
  /\ pc' = "rows"
  /\ CheckedPatient \in DOMAIN appointmentsCache'
  /\ appointmentsCache'[CheckedPatient].apiError

\* C20: when the appointment check of an evaluation item reports apiError
\* the item stays an evaluation: its value is added to the evaluation column,
\* its discount is in the discount total, and its detail keeps the
\* evaluation column and the provenance the classifier gave
C20_ApiErrorKeepsEvaluation ==
  [][ApiErrorReported =>
        LET item == CurrentItem
            before == IF COLUMNS.AVALIACAO \in DOMAIN row.procedureValues
                        THEN row.procedureValues[COLUMNS.AVALIACAO]
                        ELSE 0
            discount == IF item.desconto > 0
                          THEN item.desconto * item.quantidade
                          ELSE 0
            detail == row'.classificationDetails[Len(row'.classificationDetails)]
        IN /\ COLUMNS.AVALIACAO \in DOMAIN row'.procedureValues
           /\ row'.procedureValues[COLUMNS.AVALIACAO] = before + item.valor
           /\ row'.discountTotal = row.discountTotal + discount
           /\ Len(row'.classificationDetails) = Len(row.classificationDetails) + 1
           /\ detail.procedimentoId = item.procedimento_id
           /\ detail.colunaDestino = COLUMNS.AVALIACAO
           /\ detail.classificadoPor =
                classifyProcedure(item.nome, item.procedimento_id).classificadoPor]_vars

\* C20: the search of the appointments of patient 1 has failed, and the
\* consultation of 110 with a discount of 20, the second item of its group,
\* is in the evaluation column, its discount in the total
C20_Witness ==
  /\ pc = "rows"
  /\ cursor.g \in DOMAIN groupedTransactions
  /\ CheckedPatient \in DOMAIN appointmentsCache
  /\ appointmentsCache[CheckedPatient].apiError
  /\ Len(row.classificationDetails) = 2
  /\ row.classificationDetails[2].procedimentoId = 16
  /\ row.classificationDetails[2].colunaDestino = COLUMNS.AVALIACAO
  /\ row.classificationDetails[2].valor = 110
  /\ COLUMNS.AVALIACAO \in DOMAIN row.procedureValues
  /\ row.procedureValues[COLUMNS.AVALIACAO] = 110
  /\ row.discountTotal = 20

-----------------------------------------------------------------------------
(* Claims on the rows *)

\* the step is the return of the appointment check of the current item, the
\* search answered and no appointment on the date of the check
NoAppointmentReported ==
  /\ pc \in {"check", "appointments"}
  /\ pc' = "rows"
  /\ CheckedPatient \in DOMAIN appointmentsCache'
  /\ ~appointmentsCache'[CheckedPatient].apiError
  /\ referenceDate \notin appointmentsCache'[CheckedPatient].appointments

\* C21: when the appointment check of an evaluation item succeeds and reports
\* no appointment on the date, the item is recorded as advance deposit
\* without destination column, its value is added to no column, and the
\* discount total of the row is what it was before the item
C21_AdvanceDeposit ==
  [][NoAppointmentReported =>
        LET item == CurrentItem
            detail == row'.classificationDetails[Len(row'.classificationDetails)]
        IN /\ row'.procedureValues = row.procedureValues
           /\ row'.discountTotal = row.discountTotal
           /\ Len(row'.classificationDetails) = Len(row.classificationDetails) + 1
           /\ detail.procedimentoId = item.procedimento_id
           /\ detail.valor = item.valor
           /\ detail.colunaDestino = NULL
           /\ detail.colunaDestinoNome = "SINAL_ANTECIPADO"
           /\ detail.classificadoPor = "agendamento-futuro"]_vars

\* C21: the consultation of 110 with a discount of 20, checked on a date
\* without appointment, is recorded as advance deposit, the evaluation column
\* empty and the discount total 0
C21_Witness ==
  /\ pc = "rows"
  /\ cursor.g \in DOMAIN groupedTransactions
  /\ CheckedPatient \in DOMAIN appointmentsCache
  /\ ~appointmentsCache[CheckedPatient].apiError
  /\ Len(row.classificationDetails) = 2
  /\ CurrentGroup.detailedItems[2].desconto = 20
  /\ row.classificationDetails[2].procedimentoId = 16
  /\ row.classificationDetails[2].valor = 110
  /\ row.classificationDetails[2].colunaDestinoNome = "SINAL_ANTECIPADO"
  /\ COLUMNS.AVALIACAO \notin DOMAIN row.procedureValues
  /\ row.discountTotal = 0

\* the sum of the values of the details from detail k on whose destination is
\* the column
RECURSIVE SumInColumn(_, _, _)
SumInColumn(details, column, k) ==
  IF k > Len(details)
    THEN 0
    ELSE (IF details[k].colunaDestino = column THEN details[k].valor ELSE 0)
         + SumInColumn(details, column, k + 1)

\* the details are one per item, in the order of the items, and every column
\* holds the values of the details sent to it and nothing else
OnePerItem(items, procedureValues, details) ==
  /\ Len(details) <= Len(items)
  /\ \A k \in DOMAIN details :
       /\ details[k].procedimentoId = items[k].procedimento_id
       /\ details[k].valor = items[k].valor
       /\ details[k].colunaDestino = NULL =>
            details[k].colunaDestinoNome \in {"DESCARTADO", "SINAL_ANTECIPADO"}
       /\ details[k].colunaDestino # NULL =>
            /\ details[k].colunaDestino \in DOMAIN procedureValues
            /\ details[k].colunaDestinoNome \notin {"DESCARTADO", "SINAL_ANTECIPADO"}
  /\ \A column \in DOMAIN procedureValues :
       /\ column # NULL
       /\ \E k \in DOMAIN details : details[k].colunaDestino = column
       /\ procedureValues[column] = SumInColumn(details, column, 1)

\* C22: in buildRow every item of a group gives exactly one classification
\* record; its value is in exactly one column when the record has a
\* destination and in none when the record is discarded or advance deposit
C22_CountedOrDropped ==
  /\ \A n \in DOMAIN insertedRows :
       /\ Len(insertedRows[n].classificationDetails) =
            Len(groupedTransactions[n].detailedItems)
       /\ OnePerItem(groupedTransactions[n].detailedItems,
                     insertedRows[n].procedureValues,
                     insertedRows[n].classificationDetails)
  /\ (pc \in {"rows", "check", "appointments", "backoff"}
        /\ cursor.g \in DOMAIN groupedTransactions) =>
       /\ Len(row.classificationDetails) = cursor.k - 1
       /\ OnePerItem(CurrentGroup.detailedItems, row.procedureValues,
                     row.classificationDetails)

\* C22: a row of three items is inserted: the first and the third counted in
\* their columns, the second, an advance deposit, in none
C22_Witness ==
  \E n \in DOMAIN insertedRows :
    /\ Len(insertedRows[n].classificationDetails) = 3
    /\ insertedRows[n].classificationDetails[1].colunaDestino # NULL
    /\ insertedRows[n].classificationDetails[2].colunaDestino = NULL
    /\ insertedRows[n].classificationDetails[3].colunaDestino # NULL
    /\ insertedRows[n].classificationDetails[2].valor = 110

-----------------------------------------------------------------------------
(* Claims on the failures of the upstream *)

\* C23: an uncached appointment search makes at most 3 attempts; a further
\* attempt follows a failed one only when the failure had no HTTP status, or
\* status 409, or a status of 500 and more, and is the next attempt in
\* number; every other answer, the success included, ends the call with that
\* attempt
C23_AtMostThreeAttempts ==
  /\ [](pc \in {"appointments", "backoff"} =>
          cursor.attempt \in 1..3)
  /\ [](pc = "backoff" =>
          /\ cursor.attempt < 3
          /\ cursor.status = 0 \/ cursor.status = 409 \/ cursor.status >= 500)
  /\ [][/\ pc = "appointments" =>
             \/ pc' = "backoff" /\ cursor'.attempt = cursor.attempt
             \/ /\ pc' = "rows"
                /\ cursor'.attempt = 0
                /\ CheckedPatient \in DOMAIN appointmentsCache'
        /\ pc = "backoff" =>
             pc' = "appointments" /\ cursor'.attempt = cursor.attempt + 1
        /\ pc' = "appointments" =>
             \/ pc = "check" /\ cursor'.attempt = 1
             \/ pc = "backoff"]_vars

\* C23: the third attempt of a search is under way
C23_Witness ==
  /\ pc = "appointments"
  /\ cursor.attempt = 3
  /\ CheckedPatient \notin DOMAIN appointmentsCache

\* the step is the end of an appointment search that was requested
SearchEnds == pc = "appointments" /\ pc' # "backoff"

\* C24: the appointment search never raises: the step that ends it returns to
\* the row, and what it returns and caches is either the listing of the
\* upstream or no appointment with apiError true; after a failure the caller
\* is told apiError true and counts the item in its column
C24_SearchNeverRaises ==
  [][SearchEnds =>
       LET result == appointmentsCache'[CheckedPatient]
           detail == row'.classificationDetails[Len(row'.classificationDetails)]
       IN /\ pc' = "rows"
          /\ CheckedPatient \in DOMAIN appointmentsCache'
          /\ \/ result = [appointments |->
                            AppointmentListing(CheckedPatient, referenceDate - 7,
                                               referenceDate + 7),
                          apiError |-> FALSE]
             \/ result = [appointments |-> {}, apiError |-> TRUE]
          /\ result.apiError =>
               /\ detail.colunaDestino = COLUMNS.AVALIACAO
               /\ detail.valor = CurrentItem.valor
               /\ row'.procedureValues =
                    AddValue(row.procedureValues, COLUMNS.AVALIACAO,
                             CurrentItem.valor)]_vars

\* C24: a search that failed is cached as failed for a patient who has
\* appointments, and the item is counted as evaluation
C24_Witness ==
  /\ pc = "rows"
  /\ \E p \in DOMAIN appointmentsCache :
       /\ appointmentsCache[p] = [appointments |-> {}, apiError |-> TRUE]
       /\ AppointmentDays(p) # {}
  /\ Len(row.classificationDetails) > 0
  /\ row.classificationDetails[Len(row.classificationDetails)].colunaDestino =
       COLUMNS.AVALIACAO

\* the requests of the call of transaction t that fail in this step
NewFailures(t) == answers'[t].failed \ answers[t].failed

\* the calls that are answered in this step
Answering == DOMAIN answers \cap DOMAIN answers'

\* C25: every read call of a transaction's enrichment (proposal listing,
\* invoice detail, procedure metadata) that fails with a transient failure
\* (no response, 409, 5xx) is attempted again: the call goes on waiting for
\* the same request instead of taking the default
C25_ReadsRetried ==
  [][\A t \in Answering :
       \A f \in NewFailures(t) :
         (f.status = 0 \/ f.status = 409 \/ f.status >= 500) =>
            /\ t \in DOMAIN tasks'
            /\ tasks'[t].at = tasks[t].at]_vars

\* C26: an exception raised while one transaction is enriched does not stop
\* the batch when transactions follow it
C26_ExceptionSkipsOne ==
  \A t \in DOMAIN answers :
    (answers[t].thrown /\ t < Len(transactions)) => pc # "exit"

\* the record the call of transaction t returned in this step
ReturnedNow == enrichedTransactions'[Len(enrichedTransactions')]

\* C27: a failed secondary lookup never aborts the batch and gives a fixed
\* default: a failed proposal listing is no proposal, cached, and no match; a
\* failed invoice fetch is no item, for the matcher no match and for the
\* fallback the equal split of the report; a failed invoice-date fetch is no
\* date and no payment-only record; a failed procedure lookup is the
\* placeholder name; the batch ends early only by an exception, never one of
\* a failed lookup
C27_LookupDefaults ==
  /\ [](pc = "exit" =>
          \E t \in DOMAIN answers :
            /\ answers[t].thrown
            /\ \A f \in answers[t].failed : f.call # "date")
  /\ [][\A t \in Answering :
          \A f \in NewFailures(t) :
            LET mov == tasks[t].mov
                returns == t \notin DOMAIN tasks'
            IN /\ pc = "loop" /\ pc' = "loop"
               /\ f.call = "date" =>
                    /\ answers'[t].proposalDate = 0
                    /\ returns => ~ReturnedNow.paymentOnly
               /\ f.call = "proposals" =>
                    /\ proposalsCache'[<<mov.PacienteID, mov.Data>>] = << >>
                    /\ answers'[t].matched = 0
                    /\ returns => ReturnedNow.fonteItens # "proposal"
               /\ f.call = "matchItems" =>
                    /\ answers'[t].matched = 0
                    /\ returns => ReturnedNow.fonteItens # "proposal"
               /\ f.call = "items" =>
                    /\ answers'[t].items = << >>
                    /\ returns
                    /\ ReturnedNow.fonteItens = "report-distributed"
                    /\ \A j \in DOMAIN ReturnedNow.detailedItems :
                         ReturnedNow.detailedItems[j].valor
                           * Len(ReturnedNow.detailedItems) = mov.Value
               /\ f.call = "procedure" =>
                    LET k == tasks[t].k
                        built == IF returns THEN ReturnedNow.detailedItems
                                            ELSE tasks'[t].detailedItems
                    IN built[k].nome =
                         Name_ProcedimentoNo(tasks[t].items[k].procedimento_id)]_vars

\* C27: the listing of the proposals and the invoice fetch of a transaction
\* failed, and the call returned the equal split of the report
C27_Witness ==
  /\ pc = "loop"
  /\ \E t \in DOMAIN answers :
       /\ [call |-> "proposals", status |-> 404] \in answers[t].failed
       /\ [call |-> "items", status |-> 503] \in answers[t].failed
       /\ t \notin DOMAIN tasks
       /\ enrichedTransactions[t].fonteItens = "report-distributed"
       /\ Len(enrichedTransactions[t].detailedItems) = 2

\* C28: a request answered 401 ends the run
C28_UnauthorizedIsFatal ==
  \A t \in DOMAIN answers :
    \A f \in answers[t].failed : f.status = 401 => pc = "exit"

\* the steps that hand the batch to the writers and the writers' own
Writing == pc \in {"mapping", "rows", "check", "appointments", "backoff"}

\* C30: the writers have the output of a batch only after every transaction
\* of the batch has been enriched; a batch that aborted has no group and no
\* row written
C30_WritersAfterEnrichment ==
  /\ (Writing \/ groupedTransactions # << >> \/ insertedRows # << >>) =>
       /\ loopIndex = Len(transactions)
       /\ Len(enrichedTransactions) = Len(transactions)
       /\ tasks = << >>
       /\ \A t \in DOMAIN transactions : enrichedTransactions[t].mov = transactions[t]
  /\ pc = "exit" =>
       /\ groupedTransactions = << >>
       /\ insertedRows = << >>

\* C30: the batch aborted at its second transaction, the first enriched, and
\* nothing is written
C30_Witness ==
  /\ pc = "exit"
  /\ Len(transactions) = 2
  /\ loopIndex = 2
  /\ Len(enrichedTransactions) = 1
  /\ insertedRows = << >>

\* C29: when the report request fails or answers success false,
\* fetchDetailedTransactions raises: the step ends the process with the
\* UsedProposals set as it was, no transaction enriched or being enriched and
\* no list returned
C29_ReportFailure ==
  /\ [](pc = "exit" =>
          /\ loopIndex = 0
          /\ enrichedTransactions = << >>
          /\ tasks = << >>
          /\ groupedTransactions = << >>)
  /\ [][(pc = "report" /\ pc' # "loop") =>
          /\ pc' = "exit"
          /\ usedProposalIds' = usedProposalIds
          /\ loopIndex' = 0
          /\ enrichedTransactions' = << >>
          /\ tasks' = << >>]_vars

\* C29: the report of the second batch failed, the proposals used by the first
\* still in the set
C29_Witness ==
  /\ pc = "exit"
  /\ batch = 2
  /\ usedProposalIds # {}

-----------------------------------------------------------------------------
(* Claims on the proposals, the groups and the caches *)

\* the proposals the upstream lists, for any patient and day
ListedProposals ==
  UNION {Range(ProposalListing(p, day)) : p \in 0..3, day \in {0} \cup Range(DateList)}

\* the ids of the listed proposals whose status is executed
ExecutedIds == {p.proposal_id : p \in {q \in ListedProposals : q.status = "Executada"}}

\* C31: only proposals whose status is executed are eligible: the listing
\* returned and cached holds no other, no other is matched to a transaction,
\* and no other is added to usedProposalIds
C31_OnlyExecuted ==
  /\ \A key \in DOMAIN proposalsCache :
       \A j \in DOMAIN proposalsCache[key] :
         proposalsCache[key][j].status = "Executada"
  /\ \A t \in DOMAIN answers : answers[t].matched # 0 => answers[t].matched \in ExecutedIds
  /\ \A t \in DOMAIN tasks :
       \A j \in DOMAIN tasks[t].available : tasks[t].available[j].status = "Executada"
  /\ \A t \in DOMAIN enrichedTransactions :
       enrichedTransactions[t].fromProposal # 0 =>
         enrichedTransactions[t].fromProposal \in ExecutedIds
  /\ usedProposalIds \subseteq ExecutedIds

\* C31: the upstream lists for patient 1 on day 40 a waiting proposal of
\* exactly the value of the transaction beside two executed ones; the cached
\* listing holds the two, and the transaction is matched to an executed one
C31_Witness ==
  /\ <<1, 40>> \in DOMAIN proposalsCache
  /\ Len(proposalsCache[<<1, 40>>]) = 2
  /\ \E p \in Range(ProposalListing(1, 40)) : p.status # "Executada" /\ p.value = 305
  /\ \E t \in Returned :
       /\ enrichedTransactions[t].mov.Value = 305
       /\ answers[t].matched \in usedProposalIds
       /\ usedProposalIds # {}

\* the key of an enriched transaction
GroupKey(enriched) == <<enriched.mov.PacienteID, enriched.mov.Data>>

\* the positions in the list of the transactions with the key of group g
Members(g) ==
  {n \in DOMAIN enrichedTransactions :
     GroupKey(enrichedTransactions[n]) = <<g.patientId, g.date>>}

\* the smallest position of a non-empty set of positions
First(positions) == CHOOSE n \in positions : \A m \in positions : n <= m

\* the items of the transactions of the list from transaction n on, in order
RECURSIVE ItemsFrom(_, _)
ItemsFrom(list, n) ==
  IF n > Len(list) THEN << >> ELSE list[n].detailedItems \o ItemsFrom(list, n + 1)

\* C32: groupTransactions partitions the enriched transactions by patient
\* and date: every transaction has the key of one group, no two groups have
\* one key, a group holds exactly the transactions of its key in the order of
\* the input, the groups are in the order of their first transactions, and
\* the items of a group are the items of its transactions, concatenated in
\* input order
C32_GroupsPartition ==
  pc = "rows" =>
    LET groups == groupedTransactions
    IN /\ \A n \in DOMAIN enrichedTransactions :
            \E j \in DOMAIN groups : n \in Members(groups[j])
       /\ \A j, k \in DOMAIN groups :
            j # k => <<groups[j].patientId, groups[j].date>>
                       # <<groups[k].patientId, groups[k].date>>
       /\ \A j \in DOMAIN groups :
            LET HasKey(e) == GroupKey(e) = <<groups[j].patientId, groups[j].date>>
            IN /\ Members(groups[j]) # {}
               /\ groups[j].transactions = SelectSeq(enrichedTransactions, HasKey)
               /\ groups[j].detailedItems = ItemsFrom(groups[j].transactions, 1)
       /\ \A j, k \in DOMAIN groups :
            j < k => First(Members(groups[j])) < First(Members(groups[k]))

\* C32: of three transactions the first and the third are of one patient and
\* day and the second of another: two groups, the first with the items of the
\* first and the third transaction
C32_Witness ==
  /\ pc = "rows"
  /\ Len(enrichedTransactions) = 3
  /\ Len(groupedTransactions) = 2
  /\ GroupKey(enrichedTransactions[1]) = GroupKey(enrichedTransactions[3])
  /\ GroupKey(enrichedTransactions[1]) # GroupKey(enrichedTransactions[2])
  /\ enrichedTransactions[1].mov.PacienteID = enrichedTransactions[2].mov.PacienteID
  /\ Len(groupedTransactions[1].transactions) = 2
  /\ Len(groupedTransactions[1].detailedItems) = 4

\* C33: the mapping is loaded at most once: once a call of fetchGroupMapping
\* has completed, no step loads it from another answer or changes the map,
\* and a later call hands out that same map; after a load whose request
\* failed the map is empty and no classification is by id
C33_LoadedOnce ==
  /\ []( (groupsCache.set /\ ~loadedFrom.ok) =>
           /\ groupsCache.map = EmptyMap
           /\ groupMapping = groupsCache
           /\ (lastCall.made /\ lastCall.mapSet) =>
                lastCall.result.classificadoPor \in {"nome", "fallback"} )
  /\ [][ groupsCache.set =>
           /\ groupsCache' = groupsCache
           /\ loadedFrom' = loadedFrom
           /\ groupMapping' = groupsCache ]_vars

\* C33 witness: the load failed, a procedure with id 58 was classified by its
\* name, the mapping was asked for again, and the map is still the empty one
C33_Witness ==
  /\ groupsCache.set /\ ~loadedFrom.ok
  /\ groupMapping = [set |-> TRUE, map |-> EmptyMap]
  /\ memoCall.made /\ memoCall.mapSet /\ memoCall.id = 58
  /\ memoCall.result.classificadoPor = "nome"
  /\ lastCall = memoCall
  /\ otherBetween

\* the calls to which the matcher returns a proposal in this step
MatchedNow ==
  {t \in DOMAIN answers' :
     /\ answers'[t].matched # 0
     /\ t \in DOMAIN answers => answers[t].matched = 0}

\* C34: a step of the enrichment changes UsedProposals only when the matcher
\* returns a proposal: then the set grows by the id of that proposal, which it
\* did not hold, and the call returns a record of the proposal path; a call
\* that returns a payment-only, report-single, report-distributed or invoice
\* record leaves the set as it was
C34_UsedOnlyByMatch ==
  [][ /\ IF MatchedNow = {}
           THEN usedProposalIds' = usedProposalIds
           ELSE \E t \in MatchedNow :
                  /\ MatchedNow = {t}
                  /\ answers'[t].matched \notin usedProposalIds
                  /\ usedProposalIds' = usedProposalIds \cup {answers'[t].matched}
                  /\ Len(enrichedTransactions') = Len(enrichedTransactions) + 1
                  /\ ReturnedNow.fonteItens = "proposal"
                  /\ ReturnedNow.fromProposal = answers'[t].matched
      /\ ( /\ Len(enrichedTransactions') > Len(enrichedTransactions)
           /\ ReturnedNow.fonteItens
                \in {"payment-only", "report-single", "report-distributed", "invoice"} )
         => usedProposalIds' = usedProposalIds ]_vars

\* C34 witness: a call of the proposal path and a call of the report have
\* returned, and UsedProposals holds the proposal of the first alone
C34_Witness ==
  \E i, j \in DOMAIN enrichedTransactions :
    /\ i < j
    /\ enrichedTransactions[i].fonteItens = "proposal"
    /\ enrichedTransactions[j].fonteItens = "report-single"
    /\ enrichedTransactions[j].mov.PacienteID = enrichedTransactions[i].mov.PacienteID
    /\ i \in DOMAIN answers /\ answers[i].matched = enrichedTransactions[i].fromProposal
    /\ usedProposalIds = {enrichedTransactions[i].fromProposal}

\* C35: whenever checkAppointmentDate returns without apiError for a patient
\* for whom the upstream holds an appointment on exactly the date asked for,
\* the result it reads the date from holds that date, so that it reports
\* hasAppointmentToday = true, whichever dates the patient was checked for
\* before
C35_ExactDateFound ==
  [][ (pc \in {"check", "appointments"} /\ pc' = "rows") =>
        LET result == appointmentsCache'[CheckedPatient]
        IN (~result.apiError /\ referenceDate \in AppointmentDays(CheckedPatient))
             => referenceDate \in result.appointments ]_vars

\* the patients whose memoized search ended with apiError
FailedSearches ==
  {p \in DOMAIN appointmentsCache : appointmentsCache[p].apiError}

\* C36: a search that ended with apiError stays memoized as it is; no
\* request for the appointments of its patient is under way or waiting to be
\* repeated; and a later check for that patient returns at once from the
\* cache, the item checked being booked as an evaluation like any realized
\* item
C36_ErrorMemoized ==
  /\ [](pc \in {"appointments", "backoff"} => CheckedPatient \notin FailedSearches)
  /\ [][ /\ \A p \in FailedSearches :
               /\ p \in DOMAIN appointmentsCache'
               /\ appointmentsCache'[p] = appointmentsCache[p]
          /\ (pc = "check" /\ CheckedPatient \in FailedSearches) =>
               /\ pc' = "rows"
               /\ row' = Realized(CurrentItem,
                                  classifyProcedure(CurrentItem.nome,
                                                    CurrentItem.procedimento_id))
               /\ row'.classificationDetails[Len(row'.classificationDetails)].colunaDestino
                    = COLUMNS.AVALIACAO ]_vars

\* C36 witness: the search of patient 1 failed at the first consultation of
\* the group and the second consultation, checked from the cache, is an
\* evaluation too
C36_Witness ==
  /\ pc = "rows"
  /\ 1 \in FailedSearches
  /\ cursor.g \in DOMAIN groupedTransactions
  /\ CheckedPatient = 1
  /\ cursor.k = 3
  /\ Len(row.classificationDetails) = 2
  /\ \A k \in 1..2 :
       /\ row.classificationDetails[k].procedimentoId = 16
       /\ row.classificationDetails[k].colunaDestino = COLUMNS.AVALIACAO

\* the calls that wait for the answer of fetchProcedure
AtProcedure == {t \in DOMAIN tasks : tasks[t].at = "procedure"}

\* the id of the procedure call t waits for
AskedId(t) == tasks[t].items[tasks[t].k].procedimento_id

\* C37: the procedure cache holds only what a successful lookup returned; no
\* request is made for an id the cache holds; and the answer of a request
\* is stored when it is a procedure and leaves the cache as it was, without
\* the id, when the request failed or found nothing
C37_OnlySuccessfulCached ==
  /\ []( /\ \A id \in DOMAIN proceduresCache :
               /\ proceduresCache[id] # << >>
               /\ proceduresCache[id] = ProcedureName(id)
          /\ \A t \in AtProcedure : AskedId(t) \notin DOMAIN proceduresCache )
  /\ [][ /\ \A t \in AtProcedure :
               LET nome == answers'[t].procedures[tasks[t].k]
               IN IF nome = << >>
                    THEN /\ proceduresCache' = proceduresCache
                         /\ AskedId(t) \notin DOMAIN proceduresCache'
                    ELSE proceduresCache' = MapSet(proceduresCache, AskedId(t), nome)
          /\ AtProcedure = {} => proceduresCache' = proceduresCache ]_vars

\* C37 witness: the lookup of procedure 1 found nothing or failed in the
\* first call, which has returned, and it is requested again by the second
\* call, whose invoice holds the same procedure
C37_Witness ==
  /\ 1 \in DOMAIN answers /\ 1 \notin DOMAIN tasks
  /\ Len(answers[1].items) >= 1
  /\ answers[1].items[1].procedimento_id = 1
  /\ answers[1].procedures[1] = << >>
  /\ 40 \in DOMAIN proceduresCache
  /\ 2 \in AtProcedure
  /\ AskedId(2) = 1

\* fetchDetailedTransactions has returned its list and the driver works on it
BatchReturned == pc \in {"mapping", "rows", "check", "appointments", "backoff"}

\* C38: the records collected so far are the enrichments of the first
\* transactions of the report, record i of transaction i, and when
\* fetchDetailedTransactions has returned there is one record for every
\* transaction of the report
C38_OneRecordPerTransaction ==
  /\ Len(enrichedTransactions) <= Len(transactions)
  /\ \A i \in DOMAIN enrichedTransactions :
       enrichedTransactions[i].mov = transactions[i]
  /\ BatchReturned =>
       Len(enrichedTransactions) = Len(transactions)

\* C38 witness: a batch of two different transactions has returned two
\* records of different sources, in the order of the report
C38_Witness ==
  /\ pc = "mapping"
  /\ Len(transactions) = 2
  /\ transactions[1] # transactions[2]
  /\ Len(enrichedTransactions) = 2
  /\ enrichedTransactions[1].mov = transactions[1]
  /\ enrichedTransactions[1].fonteItens = "invoice"
  /\ enrichedTransactions[2].fonteItens = "report-single"

\* the requests the suspended call may still make, itself included: the
\* invoice date, the proposal listing, the items for the matcher, the items
\* for the fallback, and one procedure for each item from item k on
Rank(task) ==
  LET n == Len(InvoiceItems(task.mov.NumeroInvoice))
  IN CASE task.at = "date" -> n + 6
       [] task.at = "proposals" -> n + 5
       [] task.at = "proposalsGet" -> n + 4
       [] task.at = "matchItems" -> n + 3
       [] task.at = "items" -> n + 2
       [] task.at = "procedure" -> Len(task.items) - task.k + 1

\* the batch is over: its rows are written, or an exception has ended it
BatchOver == pc \in {"idle", "exit"}

\* C39: when every request is answered in the end the batch ends; every
\* answer to a request of an enrichment leaves the call with fewer requests
\* still to make, of which there are at most four and one for each item of
\* the invoice; and a search of appointments is never at an attempt beyond
\* the third
C39_BatchTerminates ==
  /\ <>BatchOver
  /\ [](/\ cursor.attempt <= MAX_RETRIES
        /\ \A t \in DOMAIN tasks : Rank(tasks[t]) \in 1..8)
  /\ [][\A t \in DOMAIN tasks :
          \/ t \notin DOMAIN tasks'
          \/ Rank(tasks'[t]) < Rank(tasks[t])]_vars

\* C39 witness: the batch is over, the rows written, after the search of the
\* appointments of patient 1 was given up
C39_Witness ==
  /\ pc = "idle"
  /\ 1 \in FailedSearches
  /\ Len(enrichedTransactions) = 0
  /\ DOMAIN tasks = {}

-----------------------------------------------------------------------------
(* Claims on the payment column *)

\* C40: the column the history records for a transaction is the column of
\* the row to which the value of the transaction was added, whatever its
\* account name and payment method
C40_SameColumn ==
  colunaPagamento # NoColumn => DOMAIN paymentValues = {colunaPagamento.col}

=============================================================================
